---- MODULE Spec2Model ----
(***************************************************************************)
(* CaseHub front end: the auth session store (services/auth.ts), the HTTP  *)
(* client wrapper (services/api.ts), the router guard (router/index.ts)    *)
(* and the login / logout handlers of the views, as one state machine.     *)
(*                                                                         *)
(* Strings of the user interface that are Chinese in the source are        *)
(* written in ASCII here; each definition names the literal it stands for. *)
(***************************************************************************)
EXTENDS Integers, Sequences, FiniteSets, TLC

(***************************************************************************)
(* Bounds of the model.                                                    *)
(***************************************************************************)
\* the largest number of requests that are in flight at the same time
MaxInflight == 1
\* the largest user id the server hands out
MaxId == 1
\* the largest number of rows a list response carries
MaxRows == 1

(***************************************************************************)
(* JavaScript values.  A value is a record [t, s, n, xs]: its type tag,    *)
(* its string payload, its numeric payload and, for an array, its items    *)
(* (each item an object), for an object its members.  An object is the     *)
(* sequence of its members <<key, value>>, in insertion order.             *)
(***************************************************************************)
Undefined == [t |-> "undef", s |-> "", n |-> 0, xs |-> <<>>]
Null == [t |-> "null", s |-> "", n |-> 0, xs |-> <<>>]
Str(x) == [t |-> "str", s |-> x, n |-> 0, xs |-> <<>>]
Num(k) == [t |-> "num", s |-> "", n |-> k, xs |-> <<>>]
Bool(b) == [t |-> "bool", s |-> "", n |-> IF b THEN 1 ELSE 0, xs |-> <<>>]
Arr(items) == [t |-> "arr", s |-> "", n |-> 0, xs |-> items]
\* an object as a value: xs holds its members
Obj(members) == [t |-> "obj", s |-> "", n |-> 0, xs |-> members]
\* the "detail" of a validation error: a list of one error object
ObjList == Arr(<<Obj(<<<<"msg", Str("field required")>>>>)>>)

\* ToBoolean: "", 0, null and undefined are falsy; arrays are truthy
Truthy(v) ==
  CASE v.t = "undef" -> FALSE
    [] v.t = "null" -> FALSE
    [] v.t = "str" -> v.s # ""
    [] v.t = "num" -> v.n # 0
    [] v.t = "bool" -> v.n # 0
    [] OTHER -> TRUE

Digit == <<"0", "1", "2", "3", "4", "5", "6", "7", "8", "9">>

RECURSIVE NatToString(_)
NatToString(k) ==
  IF k < 10 THEN Digit[k + 1]
  ELSE NatToString(k \div 10) \o Digit[(k % 10) + 1]

\* ToString, as a template literal or new Error(v) applies it
JsString(v) ==
  CASE v.t = "undef" -> "undefined"
    [] v.t = "null" -> "null"
    [] v.t = "str" -> v.s
    [] v.t = "num" -> NatToString(v.n)
    [] v.t = "bool" -> IF v.n # 0 THEN "true" ELSE "false"
    [] v.t = "arr" -> IF v.xs = <<>> THEN "" ELSE "[object Object]"
    [] OTHER -> "[object Object]"

\* a || b
OrElse(a, b) == IF Truthy(a) THEN a ELSE b

(***************************************************************************)
(* Text typed into an input is a sequence of characters, so that trim()    *)
(* is computed.                                                            *)
(***************************************************************************)
RECURSIVE TrimStart(_)
TrimStart(cs) ==
  IF cs # <<>> /\ Head(cs) = " " THEN TrimStart(Tail(cs)) ELSE cs

RECURSIVE TrimEnd(_)
TrimEnd(cs) ==
  IF cs # <<>> /\ cs[Len(cs)] = " " THEN TrimEnd(SubSeq(cs, 1, Len(cs) - 1)) ELSE cs

\* String.prototype.trim
Trim(cs) == TrimEnd(TrimStart(cs))

\* the string the characters spell
RECURSIVE Join(_)
Join(cs) == IF cs = <<>> THEN "" ELSE Head(cs) \o Join(Tail(cs))

(***************************************************************************)
(* JSON.  A text is [k, pairs, raw]: k = "obj" is the text of an object    *)
(* whose members are the <<key, value>> pairs in order, k = "null" the     *)
(* text null, k = "raw" a text that is no JSON at all (raw holds it).      *)
(* NoItem is what localStorage.getItem returns for an absent key.          *)
(***************************************************************************)
AuthKeys == <<"role", "id", "name", "admin_no", "teacher_no", "student_no">>

NoItem == [k |-> "none", pairs |-> <<>>, raw |-> ""]
ObjText(ps) == [k |-> "obj", pairs |-> ps, raw |-> ""]
ArrText(items) == [k |-> "arr", pairs |-> items, raw |-> ""]
NullText == [k |-> "null", pairs |-> <<>>, raw |-> ""]
RawText(r) == [k |-> "raw", pairs |-> <<>>, raw |-> r]

\* the object {}
EmptyObj == <<>>

\* obj[key]: the value of the last member of that name, else undefined
RECURSIVE Get(_, _)
Get(obj, key) ==
  IF obj = <<>> THEN Undefined
  ELSE IF obj[Len(obj)][1] = key THEN obj[Len(obj)][2]
  ELSE Get(SubSeq(obj, 1, Len(obj) - 1), key)

\* the object literal {k1: from[k1], k2: from[k2], ...}
RECURSIVE Pick(_, _)
Pick(from, keys) ==
  IF keys = <<>> THEN <<>>
  ELSE <<<<Head(keys), Get(from, Head(keys))>>>> \o Pick(from, Tail(keys))

\* a faulty Members: undefined members are written as null
RECURSIVE Members_UndefinedAsNull(_)
Members_UndefinedAsNull(obj) ==
  IF obj = <<>> THEN <<>>
  ELSE IF Head(obj)[2].t = "undef"
  THEN <<<<Head(obj)[1], Null>>>> \o Members_UndefinedAsNull(Tail(obj))
  ELSE <<Head(obj)>> \o Members_UndefinedAsNull(Tail(obj))

\* the members JSON.stringify writes for an object: those whose value is
\* undefined are left out
RECURSIVE Members(_)
Members(obj) ==
  IF obj = <<>> THEN <<>>
  ELSE IF Head(obj)[2].t = "undef" THEN Members(Tail(obj))
  ELSE <<Head(obj)>> \o Members(Tail(obj))

JSONstringify(obj) == ObjText(Members(obj))

\* JSON.parse: [ok] tells whether it returned (FALSE: SyntaxError thrown),
\* [isNull] whether the value is null, [obj] the members if it is an object,
\* [xs] the items if it is an array
JSONparse(text) ==
  CASE text.k = "obj" -> [ok |-> TRUE, isNull |-> FALSE, obj |-> text.pairs, xs |-> <<>>]
    [] text.k = "arr" -> [ok |-> TRUE, isNull |-> FALSE, obj |-> EmptyObj, xs |-> text.pairs]
    [] text.k = "null" -> [ok |-> TRUE, isNull |-> TRUE, obj |-> EmptyObj, xs |-> <<>>]
    [] OTHER -> [ok |-> FALSE, isNull |-> FALSE, obj |-> EmptyObj, xs |-> <<>>]

(***************************************************************************)
(* services/auth.ts                                                        *)
(***************************************************************************)
Roles == {"admin", "teacher", "student"}

\* the value null of type AuthState | null
NoAuth == [some |-> FALSE, obj |-> EmptyObj]

\* a faulty getAuth: the catch hands back an empty session object
getAuth_CatchReturnsObject(store) ==
  IF store.k = "none" \/ (store.k = "raw" /\ store.raw = "") THEN NoAuth
  ELSE LET p == JSONparse(store)
       IN IF ~p.ok THEN [some |-> TRUE, obj |-> EmptyObj]
          ELSE IF p.isNull THEN NoAuth
          ELSE [some |-> TRUE, obj |-> p.obj]

getAuth(store) ==
  IF store.k = "none" \/ (store.k = "raw" /\ store.raw = "") THEN NoAuth
  ELSE LET p == JSONparse(store)
       IN IF ~p.ok THEN NoAuth
          ELSE IF p.isNull THEN NoAuth
          ELSE [some |-> TRUE, obj |-> p.obj]

setAuth(state) == JSONstringify(state)

clearAuth == NoItem

(***************************************************************************)
(* services/api.ts                                                         *)
(***************************************************************************)
\* the generic message of request(): the source's literal is the Chinese
\* for "request failed: " followed by the status
GenericMessage(status) == "request failed: " \o NatToString(status)

\* messages of the errors the runtime itself throws
TypeErrorMessage == "Cannot read properties of null (reading 'detail')"
SyntaxErrorMessage == "Unexpected token in JSON"
FetchErrorMessage == "Failed to fetch"

\* Response.ok
Ok(status) == status >= 200 /\ status <= 299

\* What the promise of request() settles to for a response
\* [net, status, body]; net = FALSE is a fetch() that rejected.
\*   [kind |-> "resolve", isNull, obj]   the parsed body
\*   [kind |-> "reject", err, message]   err is the class of the error
\* fetches is the number of calls of fetch() the call of request() has made
Resolve(p) ==
  [kind |-> "resolve", isNull |-> p.isNull, obj |-> p.obj, xs |-> p.xs, err |-> "", message |-> "",
   fetches |-> 1]
Reject(e, m) ==
  [kind |-> "reject", isNull |-> FALSE, obj |-> EmptyObj, xs |-> <<>>, err |-> e, message |-> m,
   fetches |-> 1]

\* what resp.json().catch(() => ({})) gives for a body that fails to parse
CaughtEmpty == [ok |-> TRUE, isNull |-> FALSE, obj |-> EmptyObj, xs |-> <<>>]

\* a faulty request: the error body's "detail" is not read
request_IgnoresDetail(resp) ==
  IF ~resp.net THEN Reject("TypeError", FetchErrorMessage)
  ELSE IF ~Ok(resp.status)
  THEN LET p == JSONparse(resp.body)
           data == IF p.ok THEN p ELSE CaughtEmpty
       IN IF data.isNull THEN Reject("TypeError", TypeErrorMessage)
          ELSE Reject("Error", GenericMessage(resp.status))
  ELSE LET p == JSONparse(resp.body)
       IN IF p.ok THEN Resolve(p) ELSE Reject("SyntaxError", SyntaxErrorMessage)

\* a faulty request: a 2xx body that fails to parse is taken as {}
request_SwallowsParseFailure(resp) ==
  IF ~resp.net THEN Reject("TypeError", FetchErrorMessage)
  ELSE IF ~Ok(resp.status)
  THEN LET p == JSONparse(resp.body)
           data == IF p.ok THEN p ELSE CaughtEmpty
       IN IF data.isNull THEN Reject("TypeError", TypeErrorMessage)
          ELSE Reject("Error",
                      JsString(OrElse(Get(data.obj, "detail"), Str(GenericMessage(resp.status)))))
  ELSE LET p == JSONparse(resp.body)
       IN IF p.ok THEN Resolve(p)
          ELSE Resolve(CaughtEmpty)

\* a faulty request: a fetch that fails or is answered 5xx is made once more
request_RetriesOnFailure(resp) ==
  IF ~resp.net THEN [Reject("TypeError", FetchErrorMessage) EXCEPT !.fetches = 2]
  ELSE IF ~Ok(resp.status)
  THEN LET p == JSONparse(resp.body)
           data == IF p.ok THEN p ELSE CaughtEmpty
           again == IF resp.status >= 500 THEN 2 ELSE 1
       IN IF data.isNull THEN [Reject("TypeError", TypeErrorMessage) EXCEPT !.fetches = again]
          ELSE [Reject("Error",
                       JsString(OrElse(Get(data.obj, "detail"), Str(GenericMessage(resp.status)))))
                  EXCEPT !.fetches = again]
  ELSE LET p == JSONparse(resp.body)
       IN IF p.ok THEN Resolve(p) ELSE Reject("SyntaxError", SyntaxErrorMessage)

request(resp) ==
  IF ~resp.net THEN Reject("TypeError", FetchErrorMessage)
  ELSE IF ~Ok(resp.status)
  THEN LET p == JSONparse(resp.body)
           data == IF p.ok THEN p ELSE CaughtEmpty
       IN IF data.isNull THEN Reject("TypeError", TypeErrorMessage)
          ELSE Reject("Error",
                      JsString(OrElse(Get(data.obj, "detail"), Str(GenericMessage(resp.status)))))
  ELSE LET p == JSONparse(resp.body)
       IN IF p.ok THEN Resolve(p) ELSE Reject("SyntaxError", SyntaxErrorMessage)

\* the base URL: VITE_API_BASE of the build, or this default
apiBase == "http://localhost:8000"

\* does the object have a member `key`?
Has(obj, key) == \E i \in DOMAIN obj : obj[i][1] = key

\* {...a, ...b}: the members of a, those b also has with b's value, then
\* the members only b has
Spread(a, b) ==
  [i \in DOMAIN a |-> IF Has(b, a[i][1]) THEN <<a[i][1], Get(b, a[i][1])>> ELSE a[i]]
    \o SelectSeq(b, LAMBDA m : ~Has(a, m[1]))

JsonContentType == <<<<"Content-Type", Str("application/json")>>>>

\* the second argument request() gives to fetch: options is undefined or an
\* object; {headers: {"Content-Type": ..., ...(options?.headers || {})}, ...options}
fetchInit(options) ==
  Spread(<<<<"headers",
             Obj(Spread(JsonContentType, OrElse(Get(options.xs, "headers"), Obj(<<>>)).xs))>>>>,
         options.xs)

\* the call of fetch that request(path, options) makes
Fetch(path, options) == [url |-> apiBase \o path, init |-> fetchInit(options)]

(***************************************************************************)
(* router/index.ts                                                         *)
(***************************************************************************)
Paths == {"/", "/login", "/teacher", "/student", "/admin"}
RolePaths == {"/teacher", "/student", "/admin"}

NoMeta == [redirect |-> "", requiresAuth |-> FALSE, role |-> Undefined]

\* the route records; a path no record matches has empty meta
routes(path) ==
  CASE path = "/" -> [redirect |-> "/login", requiresAuth |-> FALSE, role |-> Undefined]
    [] path = "/login" -> NoMeta
    [] path = "/teacher" -> [redirect |-> "", requiresAuth |-> TRUE, role |-> Str("teacher")]
    [] path = "/student" -> [redirect |-> "", requiresAuth |-> TRUE, role |-> Str("student")]
    [] path = "/admin" -> [redirect |-> "", requiresAuth |-> TRUE, role |-> Str("admin")]
    [] OTHER -> NoMeta

Admit == [admit |-> TRUE, path |-> ""]
RedirectTo(p) == [admit |-> FALSE, path |-> p]

\* a faulty beforeEach: a guarded route is admitted without a session
beforeEach_NoSessionCheck(to, store) ==
  LET auth == getAuth(store)
      meta == routes(to)
  IN IF to = "/login" /\ auth.some THEN RedirectTo("/" \o JsString(Get(auth.obj, "role")))
     ELSE IF meta.requiresAuth /\ auth.some
     THEN IF Truthy(meta.role) /\ Get(auth.obj, "role") # meta.role
          THEN RedirectTo("/" \o JsString(Get(auth.obj, "role")))
          ELSE Admit
     ELSE Admit

\* a faulty beforeEach: the role of the session is not compared
beforeEach_NoRoleCheck(to, store) ==
  LET auth == getAuth(store)
      meta == routes(to)
  IN IF to = "/login" /\ auth.some THEN RedirectTo("/" \o JsString(Get(auth.obj, "role")))
     ELSE IF meta.requiresAuth
     THEN IF ~auth.some THEN RedirectTo("/login") ELSE Admit
     ELSE Admit

\* a faulty beforeEach: /login is admitted whether or not a session is stored
beforeEach_NoLoginRule(to, store) ==
  LET auth == getAuth(store)
      meta == routes(to)
  IN IF meta.requiresAuth
     THEN IF ~auth.some THEN RedirectTo("/login")
          ELSE IF Truthy(meta.role) /\ Get(auth.obj, "role") # meta.role
          THEN RedirectTo("/" \o JsString(Get(auth.obj, "role")))
          ELSE Admit
     ELSE Admit

\* a faulty beforeEach: the role comparison is inverted
beforeEach_InvertedRoleCheck(to, store) ==
  LET auth == getAuth(store)
      meta == routes(to)
  IN IF to = "/login" /\ auth.some THEN RedirectTo("/" \o JsString(Get(auth.obj, "role")))
     ELSE IF meta.requiresAuth
     THEN IF ~auth.some THEN RedirectTo("/login")
          ELSE IF Truthy(meta.role) /\ Get(auth.obj, "role") = meta.role
          THEN RedirectTo("/" \o JsString(Get(auth.obj, "role")))
          ELSE Admit
     ELSE Admit

\* a faulty beforeEach: a session redirects to its view from any location
beforeEach_RedirectsWheneverAuthenticated(to, store) ==
  LET auth == getAuth(store)
      meta == routes(to)
  IN IF auth.some THEN RedirectTo("/" \o JsString(Get(auth.obj, "role")))
     ELSE IF meta.requiresAuth THEN RedirectTo("/login")
     ELSE Admit

\* the guard: `store` is the content of localStorage when it runs
beforeEach(to, store) ==
  LET auth == getAuth(store)
      meta == routes(to)
  IN IF to = "/login" /\ auth.some THEN RedirectTo("/" \o JsString(Get(auth.obj, "role")))
     ELSE IF meta.requiresAuth
     THEN IF ~auth.some THEN RedirectTo("/login")
          ELSE IF Truthy(meta.role) /\ Get(auth.obj, "role") # meta.role
          THEN RedirectTo("/" \o JsString(Get(auth.obj, "role")))
          ELSE Admit
     ELSE Admit

\* the longest chain of redirects the model follows
MaxHops == 4

\* One navigation: the record's redirect is applied, the guard runs on the
\* resulting location, and a path the guard returns starts over.  The result
\* is the sequence of guard runs [to, admit, path].
RECURSIVE Hops(_, _, _)
Hops(to, store, fuel) ==
  LET target == IF routes(to).redirect # "" THEN routes(to).redirect ELSE to
      g == beforeEach(target, store)
      hop == [to |-> target, admit |-> g.admit, path |-> g.path]
  IN IF g.admit \/ fuel = 0 THEN <<hop>>
     ELSE <<hop>> \o Hops(g.path, store, fuel - 1)

\* the location a navigation ends on (the current one if it never settles)
Landing(hops, current) ==
  IF hops[Len(hops)].admit THEN hops[Len(hops)].to ELSE current

\* router.push(to) from the location `current`: a push to the current
\* location is dropped as a duplicate before any guard runs
RouterPush(to, store, current) ==
  IF to = current THEN [hops |-> <<>>, route |-> current]
  ELSE LET h == Hops(to, store, MaxHops)
       IN [hops |-> h, route |-> Landing(h, current)]

(***************************************************************************)
(* The server, as the views see it: the responses a request may receive.   *)
(***************************************************************************)
Response(st, b) == [net |-> TRUE, status |-> st, body |-> b]
NetworkFailure == [net |-> FALSE, status |-> 0, body |-> RawText("")]

\* the bodies a non-2xx response may carry: a message, an empty message,
\* the list of a validation error, no message, null, nothing, a proxy page
ErrorBodies ==
  { ObjText(<<<<"detail", Str("X")>>>>),
    ObjText(<<<<"detail", Str("")>>>>),
    ObjText(<<<<"detail", ObjList>>>>),
    ObjText(<<>>),
    NullText,
    RawText(""),
    RawText("<html>") }

ErrorResponses ==
  {Response(401, b) : b \in ErrorBodies}
    \cup {Response(500, ObjText(<<<<"detail", Str("X")>>>>)), Response(500, RawText("<html>"))}

\* the number a login response carries in admin_no / teacher_no / student_no
NoKey(r) == r \o "_no"

\* {role, id, name, <role>_no} as the login endpoints return it
SessionBody(r, i) ==
  ObjText(<<<<"role", Str(r)>>, <<"id", Num(i)>>, <<"name", Str("A")>>, <<NoKey(r), Str("N1")>>>>)

endpointMap(r) == "/auth/" \o r \o "/login"

\* the responses of the login endpoint at `url`: a failure, or the session
\* of a user of that endpoint's role; a 2xx body may also be null or no JSON
LoginResponses(url) ==
  {NetworkFailure} \cup ErrorResponses
    \cup {Response(200, SessionBody(r, i)) : r \in {x \in Roles : endpointMap(x) = url},
                                             i \in 1..MaxId}
    \cup {Response(200, NullText), Response(200, RawText("<html>"))}

\* the failures the other endpoints are modelled with
ViewFailures ==
  {NetworkFailure, Response(500, ObjText(<<<<"detail", Str("X")>>>>)), Response(404, RawText("<html>"))}

\* the first n rows of a table `row` of the server, n up to MaxRows
Rows(row) == {[j \in 1..n |-> row[j]] : n \in 0..MaxRows}

RowName(j) == "row" \o NatToString(j)

ClassInfo(j) ==
  <<<<"class_id", Num(j)>>, <<"class_code", Str(RowName(j))>>, <<"class_name", Str(RowName(j))>>>>

ConversationSummary(j) ==
  <<<<"conversation_id", Num(j)>>, <<"name", Str(RowName(j))>>>>

MessageItem(j) ==
  <<<<"id", Num(j)>>, <<"role", Str("assistant")>>, <<"content", Str(RowName(j))>>>>

PendingItem(j) ==
  <<<<"id", Num(j)>>, <<"original_name", Str(RowName(j))>>, <<"class_name", Str(RowName(j))>>,
    <<"uploaded_at", Str("t")>>,
    <<"uploader", Obj(<<<<"role", Str("teacher")>>, <<"no", Str("N1")>>, <<"name", Str("A")>>>>)>>>>

\* the tables of the server
ClassInfoTable == [j \in 1..MaxRows |-> ClassInfo(j)]
ConversationSummaryTable == [j \in 1..MaxRows |-> ConversationSummary(j)]
MessageItemTable == [j \in 1..MaxRows |-> MessageItem(j)]
PendingItemTable == [j \in 1..MaxRows |-> PendingItem(j)]

\* GET /teachers/{id}/classes and GET /admin/classes: a list, or null
ClassListResponses ==
  ViewFailures \cup {Response(200, ArrText(l)) : l \in Rows(ClassInfoTable)} \cup {Response(200, NullText)}

\* GET /conversations: {items: [...]}, or {} or null
ConversationListResponses ==
  ViewFailures
    \cup {Response(200, ObjText(<<<<"items", Arr(l)>>>>)) : l \in Rows(ConversationSummaryTable)}
    \cup {Response(200, ObjText(<<>>)), Response(200, NullText)}

\* GET /conversations/{id}: the detail of a conversation, or {} or null
ConversationDetail(msgs) ==
  ObjText(<<<<"name", Str("renamed")>>, <<"messages", Arr(msgs)>>,
            <<"model_name", Str("m")>>, <<"system_prompt", Str("p")>>, <<"top_n", Num(3)>>,
            <<"similarity_threshold", Num(0)>>, <<"show_citations", Bool(TRUE)>>>>)

ConversationDetailResponses ==
  ViewFailures
    \cup {Response(200, ConversationDetail(l)) : l \in Rows(MessageItemTable)}
    \cup {Response(200, ObjText(<<>>)), Response(200, NullText)}

\* GET /audits/pending: a list, or null
PendingResponses ==
  ViewFailures \cup {Response(200, ArrText(l)) : l \in Rows(PendingItemTable)} \cup {Response(200, NullText)}

(***************************************************************************)
(* State.                                                                  *)
(***************************************************************************)
VARIABLES
  storage,    \* localStorage item "casehub_auth": NoItem or a text
  route,      \* the current location ("" before the first navigation)
  login,      \* the refs of LoginView
  viewAuth,   \* the constant `auth` of the mounted role view
  teacher,    \* the refs of TeacherView
  admin,      \* the refs of AdminView
  inflight,   \* the requests awaiting their response, in order of issue
  lastWrite,  \* history: the last call of setAuth / clearAuth
  ev          \* history: the step just taken

vars == <<storage, route, login, viewAuth, teacher, admin, inflight, lastWrite, ev>>

\* what the user may have typed into the account and the password input
Accounts == {<<>>, <<" ", "S", "1">>}
Passwords == {<<" ">>, <<"p", " ">>}

LoginRefs == [role |-> "teacher", account |-> <<>>, password |-> <<>>, errorMessage |-> ""]

\* similarityThreshold is counted in tenths: 2 is the source's 0.2
DefaultSettings ==
  [modelName |-> Str(""), systemPrompt |-> Str(""), topN |-> Num(5),
   similarityThreshold |-> Num(2), showCitations |-> Bool(TRUE)]

\* (draftMessage and searchQuery are kept as the characters typed)
TeacherRefs ==
  [section |-> "conversation", classes |-> <<>>, classCode |-> Str(""), keyword |-> <<>>,
   conversations |-> <<>>, selectedConversationId |-> Null, messages |-> <<>>,
   renameValue |-> Str(""), settings |-> DefaultSettings, errorMessage |-> "",
   newConversationName |-> Str(""), draftMessage |-> <<>>, isSending |-> FALSE,
   fileRows |-> <<>>, fileToUpload |-> Null, searchQuery |-> <<>>, searchResults |-> <<>>]

AdminRefs ==
  [section |-> "audit", tab |-> "pending", errorMessage |-> "", auditRows |-> <<>>,
   selectedKey |-> Null, auditDetail |-> Null, decisionReason |-> Str(""),
   classOptions |-> <<>>]

NoResponse == [net |-> FALSE, status |-> 0, body |-> NoItem]
NoOutcome ==
  [kind |-> "none", isNull |-> FALSE, obj |-> EmptyObj, xs |-> <<>>, err |-> "", message |-> "",
   fetches |-> 0]

\* the record of a step: the handler that ran, the response it settled with
\* and what request() made of it, the path it pushed and the guard runs of
\* the navigation it caused (they read the storage the step leaves)
Event(o, rs, ou, pu, hs) ==
  [op |-> o, resp |-> rs, out |-> ou, pushed |-> pu, hops |-> hs]

Step(o) == Event(o, NoResponse, NoOutcome, "", <<>>)
Settled(o, rs, ou) == Event(o, rs, ou, "", <<>>)

\* a request in flight: the handler awaiting it, whether the view that issued
\* it is still mounted, the request, and what the handler keeps across the
\* await (the `auth` constant of its view, its argument) and the handlers
\* that await the one that issued it, innermost first (k)
Req(h, url, method, body, auth, arg) ==
  [h |-> h, live |-> TRUE, url |-> url, method |-> method, body |-> body,
   auth |-> auth, arg |-> arg, k |-> <<>>]

\* what localStorage may hold when the page is opened: nothing, an empty
\* or damaged item, or the session an earlier visit left
StoredAtStart ==
  {NoItem, RawText(""), RawText("{bad"), NullText}
    \cup {SessionBody(r, 1) : r \in Roles}

Init ==
  /\ storage \in StoredAtStart
  /\ route = ""
  /\ login = LoginRefs
  /\ viewAuth = NoAuth
  /\ teacher = TeacherRefs
  /\ admin = AdminRefs
  /\ inflight = <<>>
  /\ lastWrite = [kind |-> "none", state |-> EmptyObj]
  /\ ev = Step("init")

Remove(reqs, i) == SubSeq(reqs, 1, i - 1) \o SubSeq(reqs, i + 1, Len(reqs))

\* the requests of a view that is unmounted stay in flight, detached from
\* anything shown
Detach(reqs) == [i \in DOMAIN reqs |-> [reqs[i] EXCEPT !.live = FALSE]]

\* auth?.id
AuthId(auth) == IF auth.some THEN Get(auth.obj, "id") ELSE Undefined

\* adminId of AdminView: auth?.id || 0
adminId(auth) == OrElse(AuthId(auth), Num(0))

\* role=teacher&user_id=String(auth?.id || "")
TeacherParams(auth) == "role=teacher&user_id=" \o JsString(OrElse(AuthId(auth), Str("")))

AdminParams(auth) == "admin_id=" \o JsString(adminId(auth))

\* the requests the mount hooks of the view at `path` issue:
\* TeacherView loadClasses; AdminView loadData (audit, pending) and
\* loadClassOptions; the other views none
MountRequests(path, auth) ==
  CASE path = "/teacher" ->
         <<Req("loadClasses", "/teachers/" \o JsString(AuthId(auth)) \o "/classes", "GET",
               EmptyObj, auth, Null)>>
    [] path = "/admin" ->
         <<Req("loadPending", "/audits/pending", "GET", EmptyObj, auth, Null),
           Req("loadClassOptions", "/admin/classes?" \o AdminParams(auth), "GET",
               EmptyObj, auth, Null)>>
    [] OTHER -> <<>>

\* a navigation has ended on `newRoute`, with `store` in localStorage and
\* `reqs` in flight: unless the location stays the same, the old view is
\* unmounted and the new one is set up (a role view reads getAuth() once)
Arrive(newRoute, store, reqs) ==
  /\ route' = newRoute
  /\ IF newRoute = route
     THEN /\ inflight' = reqs
          /\ UNCHANGED <<viewAuth, login, teacher, admin>>
     ELSE \E auth \in {IF newRoute \in RolePaths THEN getAuth(store) ELSE NoAuth} :
            /\ viewAuth' = auth
            /\ login' = LoginRefs
            /\ teacher' = TeacherRefs
            /\ admin' = AdminRefs
            /\ inflight' = Detach(reqs) \o MountRequests(newRoute, auth)

(***************************************************************************)
(* Opening the application at a path (address bar, reload): everything but *)
(* localStorage starts afresh and the router navigates to the path.        *)
(***************************************************************************)
PageLoad(p) ==
  \E h \in {Hops(p, storage, MaxHops)} : \E r \in {Landing(h, "")} :
  \E auth \in {IF r \in RolePaths THEN getAuth(storage) ELSE NoAuth} :
     /\ route' = r
     /\ login' = LoginRefs
     /\ viewAuth' = auth
     /\ teacher' = TeacherRefs
     /\ admin' = AdminRefs
     /\ inflight' = MountRequests(r, auth)
     /\ ev' = Event("PageLoad", NoResponse, NoOutcome, p, h)
     /\ UNCHANGED <<storage, lastWrite>>

(***************************************************************************)
(* views/LoginView.vue                                                     *)
(***************************************************************************)
\* v-model on the role select and on the two inputs
editLoginForm(r, a, pw) ==
  /\ route = "/login"
  /\ login' = [login EXCEPT !.role = r, !.account = a, !.password = pw]
  /\ login' # login
  /\ ev' = Step("editLoginForm")
  /\ UNCHANGED <<storage, route, viewAuth, teacher, admin, inflight, lastWrite>>

\* the literals are the Chinese for "account and password must not be
\* empty" and "login failed"
EmptyFieldsMessage == "account and password must not be empty"
LoginFailedMessage == "login failed"

\* a faulty handleLogin: a login that fails validation drops the session
handleLogin_ClearsOnInvalid ==
  /\ route = "/login"
  /\ IF Trim(login.account) = <<>> \/ Trim(login.password) = <<>>
     THEN /\ login' = [login EXCEPT !.errorMessage = EmptyFieldsMessage]
          /\ storage' = clearAuth
          /\ ev' = Step("handleLogin:invalid")
          /\ UNCHANGED inflight
     ELSE /\ Len(inflight) < MaxInflight
          /\ login' = [login EXCEPT !.errorMessage = ""]
          /\ inflight' = Append(inflight,
                                Req("handleLogin", endpointMap(login.role), "POST",
                                    <<<<"account", Str(Join(Trim(login.account)))>>,
                                      <<"password", Str(Join(Trim(login.password)))>>>>,
                                    NoAuth, Null))
          /\ ev' = Step("handleLogin:request")
          /\ UNCHANGED storage
  /\ UNCHANGED <<route, viewAuth, teacher, admin, lastWrite>>

\* handleLogin up to its await: validation, then the request is issued
handleLogin ==
  /\ route = "/login"
  /\ IF Trim(login.account) = <<>> \/ Trim(login.password) = <<>>
     THEN /\ login' = [login EXCEPT !.errorMessage = EmptyFieldsMessage]
          /\ ev' = Step("handleLogin:invalid")
          /\ UNCHANGED inflight
     ELSE /\ Len(inflight) < MaxInflight
          /\ login' = [login EXCEPT !.errorMessage = ""]
          /\ inflight' = Append(inflight,
                                Req("handleLogin", endpointMap(login.role), "POST",
                                    <<<<"account", Str(Join(Trim(login.account)))>>,
                                      <<"password", Str(Join(Trim(login.password)))>>>>,
                                    NoAuth, Null))
          /\ ev' = Step("handleLogin:request")
  /\ UNCHANGED <<storage, route, viewAuth, teacher, admin, lastWrite>>

\* the AuthState literal handleLogin builds from the response
LoginState(data) == Pick(data, AuthKeys)

\* a faulty handleLoginThen: router.push runs before setAuth
handleLoginThen_PushFirst(data, store, current) ==
  LET stored == setAuth(LoginState(data))
      to == "/" \o JsString(Get(data, "role"))
  IN [storage |-> stored, pushed |-> to, nav |-> RouterPush(to, store, current)]

\* handleLogin after a resolved request: setAuth(...), then router.push
handleLoginThen(data, store, current) ==
  LET stored == setAuth(LoginState(data))
      to == "/" \o JsString(Get(data, "role"))
  IN [storage |-> stored, pushed |-> to, nav |-> RouterPush(to, stored, current)]

\* err.message || fallback, as the catch blocks of the handlers show it
Caught(message, fallback) == IF message # "" THEN message ELSE fallback

\* the TypeError of reading a property of a response body that is null
NullReadMessage(key) == "Cannot read properties of null (reading '" \o key \o "')"

\* how an awaited request() ends for a handler that reads data[key] first:
\* the message of the error thrown, "" if none is
Thrown(out, key) ==
  IF out.kind = "reject" THEN out.message
  ELSE IF out.isNull THEN NullReadMessage(key)
  ELSE ""

\* handleLogin from its await on: the request of entry i settles with resp
handleLoginSettled(i, resp) ==
  /\ inflight[i].h = "handleLogin"
  /\ \E out \in {request(resp)}, rest \in {Remove(inflight, i)} :
       IF out.kind = "resolve" /\ ~out.isNull
       THEN \E t \in {handleLoginThen(out.obj, storage, route)} :
              /\ storage' = t.storage
              /\ lastWrite' = [kind |-> "set", state |-> LoginState(out.obj)]
              /\ Arrive(t.nav.route, t.storage, rest)
              /\ ev' = Event("handleLogin:then", resp, out, t.pushed, t.nav.hops)
       ELSE /\ login' = IF inflight[i].live
                        THEN [login EXCEPT
                                !.errorMessage = Caught(Thrown(out, "role"), LoginFailedMessage)]
                        ELSE login
            /\ inflight' = rest
            /\ ev' = Settled("handleLogin:catch", resp, out)
            /\ UNCHANGED <<storage, route, viewAuth, teacher, admin, lastWrite>>

(***************************************************************************)
(* logout of TeacherView, StudentView and AdminView                        *)
(***************************************************************************)
\* a faulty logout: the navigation is made before the session is removed
logout_PushFirst ==
  /\ route \in RolePaths
  /\ \E nav \in {RouterPush("/login", storage, route)} :
        /\ storage' = clearAuth
        /\ lastWrite' = [kind |-> "clear", state |-> EmptyObj]
        /\ Arrive(nav.route, clearAuth, inflight)
        /\ ev' = Event("logout", NoResponse, NoOutcome, "/login", nav.hops)

logout ==
  /\ route \in RolePaths
  /\ \E nav \in {RouterPush("/login", clearAuth, route)} :
        /\ storage' = clearAuth
        /\ lastWrite' = [kind |-> "clear", state |-> EmptyObj]
        /\ Arrive(nav.route, clearAuth, inflight)
        /\ ev' = Event("logout", NoResponse, NoOutcome, "/login", nav.hops)

(***************************************************************************)
(* views/TeacherView.vue: what the mount hook starts.  section is          *)
(* "conversation" from the setup on.                                       *)
(***************************************************************************)
\* the literals are the Chinese for these
LoadClassesFailed == "load classes failed"
LoadConversationsFailed == "load conversations failed"
LoadDetailFailed == "load conversation detail failed"

\* the request of refreshConversations
ConversationsUrl(auth, code, kw) ==
  "/conversations?" \o TeacherParams(auth) \o "&class_code=" \o JsString(code)
    \o "&include_last_message=true"
    \o (IF Trim(kw) # <<>> THEN "&keyword=" \o Join(Trim(kw)) ELSE "")

\* the request of loadConversationDetail
DetailUrl(auth, convId) ==
  "/conversations/" \o JsString(convId) \o "?" \o TeacherParams(auth)

\* a request awaited by handler h while the handlers of k await h
Await(h, url, method, body, auth, arg, k) ==
  [Req(h, url, method, body, auth, arg) EXCEPT !.k = k]

\* a handler that awaits a call it made: where it goes on (f) and the
\* response it holds (of createConversation: whether it is null, and its
\* conversation_id)
Frame(f, data) == [f |-> f, isNull |-> data.isNull, id |-> Get(data.obj, "conversation_id")]

\* A part of a handler, run on the refs t of the view up to its next await
\* or its end, gives the refs it leaves and the requests it has issued.
RECURSIVE callLoadConversationDetail(_, _, _, _), Return(_, _, _)

\* loadConversationDetail(convId) up to its await
callLoadConversationDetail(t, auth, convId, k) ==
  IF ~Truthy(convId) THEN Return([t EXCEPT !.errorMessage = ""], auth, k)
  ELSE [t |-> [t EXCEPT !.errorMessage = ""],
        reqs |-> <<Await("loadConversationDetail", DetailUrl(auth, convId), "GET", EmptyObj,
                         auth, convId, k)>>]

\* a faulty Return: createConversation loads the detail of the new
\* conversation without selecting it
Return_KeepsSelection(t, auth, k) ==
  IF k = <<>> THEN [t |-> t, reqs |-> <<>>]
  ELSE CASE Head(k).f = "createConversation:afterRefresh" ->
              IF Head(k).isNull
              THEN Return([t EXCEPT !.errorMessage =
                             Caught(NullReadMessage("conversation_id"),
                                    "create conversation failed")],
                          auth, Tail(k))
              ELSE callLoadConversationDetail(
                     t, auth, Head(k).id,
                     <<[Head(k) EXCEPT !.f = "createConversation:end"]>> \o Tail(k))
         [] Head(k).f = "createConversation:end" -> Return(t, auth, Tail(k))
         [] Head(k).f = "sendMessage:afterRefresh" ->
              callLoadConversationDetail(t, auth, t.selectedConversationId,
                                         <<Frame("sendMessage:finally", NoOutcome)>> \o Tail(k))
         [] OTHER -> Return([t EXCEPT !.isSending = FALSE], auth, Tail(k))

\* a handler has ended: the handler awaiting it goes on.
\*   createConversation after refreshConversations(): selects
\*     data.conversation_id (a TypeError for data null, caught: the literal
\*     is the Chinese for "create conversation failed") and loads its detail,
\*     after which it ends;
\*   sendMessage after refreshConversations(): loads the detail of the
\*     selected conversation; after that, its finally block.
Return(t, auth, k) ==
  IF k = <<>> THEN [t |-> t, reqs |-> <<>>]
  ELSE CASE Head(k).f = "createConversation:afterRefresh" ->
              IF Head(k).isNull
              THEN Return([t EXCEPT !.errorMessage =
                             Caught(NullReadMessage("conversation_id"),
                                    "create conversation failed")],
                          auth, Tail(k))
              ELSE callLoadConversationDetail(
                     [t EXCEPT !.selectedConversationId = Head(k).id], auth, Head(k).id,
                     <<[Head(k) EXCEPT !.f = "createConversation:end"]>> \o Tail(k))
         [] Head(k).f = "createConversation:end" -> Return(t, auth, Tail(k))
         [] Head(k).f = "sendMessage:afterRefresh" ->
              callLoadConversationDetail(t, auth, t.selectedConversationId,
                                         <<Frame("sendMessage:finally", NoOutcome)>> \o Tail(k))
         [] OTHER -> Return([t EXCEPT !.isSending = FALSE], auth, Tail(k))

\* refreshConversations() up to its await; the literal is the Chinese for
\* "select a class first"
callRefreshConversations(t, auth, k) ==
  IF ~Truthy(t.classCode)
  THEN Return([t EXCEPT !.errorMessage = "select a class first"], auth, k)
  ELSE [t |-> [t EXCEPT !.errorMessage = ""],
        reqs |-> <<Await("refreshConversations",
                         ConversationsUrl(auth, t.classCode, t.keyword), "GET", EmptyObj,
                         auth, Null, k)>>]

\* a faulty refreshConversationsThen: a failed request empties the list
refreshConversationsThen_FailureClears(t, rq, out) ==
  IF Thrown(out, "items") # ""
  THEN Return([t EXCEPT !.errorMessage = Caught(Thrown(out, "items"), LoadConversationsFailed),
                        !.conversations = <<>>, !.selectedConversationId = Null,
                        !.messages = <<>>],
              rq.auth, rq.k)
  ELSE LET convs == OrElse(Get(out.obj, "items"), Arr(<<>>)).xs
       IN IF Len(convs) > 0
          THEN callLoadConversationDetail(
                 [t EXCEPT !.conversations = convs,
                           !.selectedConversationId = Get(convs[1], "conversation_id")],
                 rq.auth, Get(convs[1], "conversation_id"), rq.k)
          ELSE Return([t EXCEPT !.conversations = convs, !.selectedConversationId = Null,
                                !.messages = <<>>],
                      rq.auth, rq.k)

\* refreshConversations from its await on
refreshConversationsThen(t, rq, out) ==
  IF Thrown(out, "items") # ""
  THEN Return([t EXCEPT !.errorMessage = Caught(Thrown(out, "items"), LoadConversationsFailed)],
              rq.auth, rq.k)
  ELSE LET convs == OrElse(Get(out.obj, "items"), Arr(<<>>)).xs
       IN IF Len(convs) > 0
          THEN callLoadConversationDetail(
                 [t EXCEPT !.conversations = convs,
                           !.selectedConversationId = Get(convs[1], "conversation_id")],
                 rq.auth, Get(convs[1], "conversation_id"), rq.k)
          ELSE Return([t EXCEPT !.conversations = convs, !.selectedConversationId = Null,
                                !.messages = <<>>],
                      rq.auth, rq.k)

\* loadClasses (from onMounted) after its await.  A class code set here
\* fires watch(classCode), which in section "conversation" starts
\* refreshConversations up to its await.
loadClassesSettled(i, resp) ==
  /\ inflight[i].h = "loadClasses"
  /\ \E out \in {request(resp)}, rq \in {inflight[i]}, rest \in {Remove(inflight, i)} :
       /\ IF ~rq.live
          THEN inflight' = rest /\ UNCHANGED teacher
          ELSE IF out.kind = "reject"
          THEN /\ teacher' = [teacher EXCEPT
                                !.errorMessage = Caught(out.message, LoadClassesFailed)]
               /\ inflight' = rest
          ELSE \E code \in {IF Len(out.xs) = 1 THEN Get(out.xs[1], "class_code")
                            ELSE teacher.classCode} :
                 IF code # teacher.classCode /\ Truthy(code) /\ teacher.section = "conversation"
                 THEN /\ teacher' = [teacher EXCEPT !.classes = out.xs, !.classCode = code,
                                                    !.errorMessage = ""]
                      /\ inflight' = Append(rest,
                                            Req("refreshConversations",
                                                ConversationsUrl(rq.auth, code, teacher.keyword),
                                                "GET", EmptyObj, rq.auth, Null))
                 ELSE /\ teacher' = [teacher EXCEPT !.classes = out.xs, !.classCode = code]
                      /\ inflight' = rest
       /\ ev' = Settled("loadClasses", resp, out)
       /\ UNCHANGED <<storage, route, login, viewAuth, admin, lastWrite>>

\* refreshConversations after its await: the list replaces conversations;
\* its first item is selected and loadConversationDetail runs up to its
\* await.  (A view that was left shows nothing of it; its requests go on.)
refreshConversationsSettled(i, resp) ==
  /\ inflight[i].h = "refreshConversations"
  /\ \E out \in {request(resp)}, rq \in {inflight[i]}, rest \in {Remove(inflight, i)} :
     \E r \in {refreshConversationsThen(teacher, rq, out)} :
       /\ teacher' = IF rq.live THEN r.t ELSE teacher
       /\ inflight' = rest \o [j \in DOMAIN r.reqs |-> [r.reqs[j] EXCEPT !.live = rq.live]]
       /\ ev' = Settled("refreshConversations", resp, out)
       /\ UNCHANGED <<storage, route, login, viewAuth, admin, lastWrite>>

\* a ?? b
Nullish(a, b) == IF a.t \in {"undef", "null"} THEN b ELSE a

\* the settings loadConversationDetail builds from the detail
DetailSettings(data) ==
  [modelName |-> OrElse(Get(data, "model_name"), Str("")),
   systemPrompt |-> OrElse(Get(data, "system_prompt"), Str("")),
   topN |-> OrElse(Get(data, "top_n"), Num(5)),
   similarityThreshold |-> Nullish(Get(data, "similarity_threshold"), Num(2)),
   showCitations |-> Bool(Truthy(Get(data, "show_citations")))]

\* loadConversationDetail from its await on
loadConversationDetailThen(t, rq, out) ==
  IF Thrown(out, "messages") # ""
  THEN Return([t EXCEPT !.errorMessage = Caught(Thrown(out, "messages"), LoadDetailFailed)],
              rq.auth, rq.k)
  ELSE Return([t EXCEPT !.messages = OrElse(Get(out.obj, "messages"), Arr(<<>>)).xs,
                        !.renameValue = OrElse(Get(out.obj, "name"), Str("")),
                        !.settings = DetailSettings(out.obj)],
              rq.auth, rq.k)

\* a faulty loadConversationDetailSettled: the response of a request is
\* dropped when a loadConversationDetail issued after it is in flight
loadConversationDetailSettled_StaleDropped(i, resp) ==
  /\ inflight[i].h = "loadConversationDetail"
  /\ \E out \in {request(resp)}, rq \in {inflight[i]}, rest \in {Remove(inflight, i)} :
     \E r \in {loadConversationDetailThen(teacher, rq, out)} :
       /\ teacher' = IF rq.live /\ ~\E j \in (i + 1)..Len(inflight) :
                                      inflight[j].h = "loadConversationDetail"
                     THEN r.t ELSE teacher
       /\ inflight' = rest \o [j \in DOMAIN r.reqs |-> [r.reqs[j] EXCEPT !.live = rq.live]]
       /\ ev' = Settled("loadConversationDetail", resp, out)
       /\ UNCHANGED <<storage, route, login, viewAuth, admin, lastWrite>>

\* loadConversationDetail after its await
loadConversationDetailSettled(i, resp) ==
  /\ inflight[i].h = "loadConversationDetail"
  /\ \E out \in {request(resp)}, rq \in {inflight[i]}, rest \in {Remove(inflight, i)} :
     \E r \in {loadConversationDetailThen(teacher, rq, out)} :
       /\ teacher' = IF rq.live THEN r.t ELSE teacher
       /\ inflight' = rest \o [j \in DOMAIN r.reqs |-> [r.reqs[j] EXCEPT !.live = rq.live]]
       /\ ev' = Settled("loadConversationDetail", resp, out)
       /\ UNCHANGED <<storage, route, login, viewAuth, admin, lastWrite>>

(***************************************************************************)
(* views/TeacherView.vue: what the user starts in section "conversation".  *)
(* (The handlers of the student view, part_000 lines 226-475, are the same *)
(* up to the role they send.)                                              *)
(***************************************************************************)
\* Date.now() gives a time stamp from T0 on, beyond every id of the server
T0 == 100
MaxTicks == 0
Clock == T0..(T0 + MaxTicks)

\* the requests in flight at most once the user has started a handler
MaxStarted == 2

\* a handler invoked by the user has run up to its first await or its end
Start(o, r) ==
  /\ Len(inflight) + Len(r.reqs) <= MaxStarted
  /\ teacher' = r.t
  /\ inflight' = inflight \o r.reqs
  /\ ev' = Step(o)
  /\ UNCHANGED <<storage, route, login, viewAuth, admin, lastWrite>>

\* the step of a handler that has got its response and has run on (a view
\* that was left shows nothing of it; its requests go on)
Goes(o, i, resp, out, r) ==
  /\ teacher' = IF inflight[i].live THEN r.t ELSE teacher
  /\ inflight' = Remove(inflight, i)
                   \o [j \in DOMAIN r.reqs |-> [r.reqs[j] EXCEPT !.live = inflight[i].live]]
  /\ ev' = Settled(o, resp, out)
  /\ UNCHANGED <<storage, route, login, viewAuth, admin, lastWrite>>

InConversations == route = "/teacher" /\ teacher.section = "conversation"

\* {role: "teacher", user_id: auth?.id, ...more} as JSON.stringify writes it
TeacherBody(auth, more) ==
  Members(<<<<"role", Str("teacher")>>, <<"user_id", AuthId(auth)>>>> \o more)

\* v-model on the message box and on the rename input.  (While isSending
\* the template disables the message box and the send button; the refs and
\* the handler are modelled as reachable by the page then too, which is
\* what the handler's own return on isSending is for.)
editConversationInputs(draft, name) ==
  /\ InConversations
  /\ teacher' = [teacher EXCEPT !.draftMessage = draft, !.renameValue = name]
  /\ teacher' # teacher
  /\ ev' = Step("editConversationInputs")
  /\ UNCHANGED <<storage, route, login, viewAuth, admin, inflight, lastWrite>>

\* v-model on the name input of a new conversation
editNewConversationName(name) ==
  /\ InConversations
  /\ teacher' = [teacher EXCEPT !.newConversationName = name]
  /\ teacher' # teacher
  /\ ev' = Step("editNewConversationName")
  /\ UNCHANGED <<storage, route, login, viewAuth, admin, inflight, lastWrite>>

\* the button "refresh" / "search" of the conversation list
refreshConversations ==
  /\ InConversations
  /\ Start(IF Truthy(teacher.classCode) THEN "refreshConversations:request"
           ELSE "refreshConversations:invalid",
           callRefreshConversations(teacher, viewAuth, <<>>))

\* a faulty createConversation: the list is refreshed without awaiting the
\* response of the create request
createConversation_NoAwait ==
  /\ InConversations
  /\ IF ~Truthy(teacher.classCode)
     THEN Start("createConversation:invalid",
                [t |-> [teacher EXCEPT !.errorMessage = "select a class first"], reqs |-> <<>>])
     ELSE Start("createConversation:request",
                [t |-> [teacher EXCEPT !.errorMessage = ""],
                 reqs |-> <<Await("createConversation", "/conversations", "POST",
                                  TeacherBody(viewAuth,
                                    <<<<"class_code", teacher.classCode>>,
                                      <<"name", OrElse(teacher.newConversationName, Undefined)>>>>),
                                  viewAuth, Null, <<>>)>>
                          \o callRefreshConversations(teacher, viewAuth, <<>>).reqs])

createConversation ==
  /\ InConversations
  /\ IF ~Truthy(teacher.classCode)
     THEN Start("createConversation:invalid",
                [t |-> [teacher EXCEPT !.errorMessage = "select a class first"], reqs |-> <<>>])
     ELSE Start("createConversation:request",
                [t |-> [teacher EXCEPT !.errorMessage = ""],
                 reqs |-> <<Await("createConversation", "/conversations", "POST",
                                  TeacherBody(viewAuth,
                                    <<<<"class_code", teacher.classCode>>,
                                      <<"name", OrElse(teacher.newConversationName, Undefined)>>>>),
                                  viewAuth, Null, <<>>)>>])

\* createConversation from its await on: the name input is emptied, the list
\* refreshed, then the new conversation is selected and loaded
createConversationSettled(i, resp) ==
  /\ inflight[i].h = "createConversation"
  /\ \E out \in {request(resp)}, rq \in {inflight[i]} :
       Goes("createConversation", i, resp, out,
            IF out.kind = "reject"
            THEN [t |-> [teacher EXCEPT !.errorMessage =
                           Caught(out.message, "create conversation failed")],
                  reqs |-> <<>>]
            ELSE callRefreshConversations(
                   [teacher EXCEPT !.newConversationName = Str("")], rq.auth,
                   <<Frame("createConversation:afterRefresh", out)>>))

\* a click on a conversation of the list
selectConversation(convId) ==
  /\ InConversations
  /\ Start("selectConversation",
           callLoadConversationDetail([teacher EXCEPT !.selectedConversationId = convId],
                                      viewAuth, convId, <<>>))

\* messages.findIndex((msg) => msg.id === id): the first index, 0 for none
FindIndex(msgs, id) ==
  IF \E j \in DOMAIN msgs : Get(msgs[j], "id") = id
  THEN CHOOSE j \in DOMAIN msgs :
         Get(msgs[j], "id") = id /\ \A h \in 1..(j - 1) : Get(msgs[h], "id") # id
  ELSE 0

\* messages[idx] = {...messages[idx], ...with} for the entry of that id
Resolved(msgs, id, with) ==
  IF FindIndex(msgs, id) = 0 THEN msgs
  ELSE [msgs EXCEPT ![FindIndex(msgs, id)] = Spread(msgs[FindIndex(msgs, id)], with)]

\* the two entries sendMessage appends at time `now`: the user's message and
\* the placeholder of the answer (its content is the Chinese for "generating
\* the answer...")
Placeholders(now, content) ==
  <<<<<<"id", Num(now)>>, <<"role", Str("user")>>, <<"content", Str(Join(content))>>,
      <<"created_at", Str("now")>>>>,
    <<<<"id", Num(now + 1)>>, <<"role", Str("assistant")>>,
      <<"content", Str("generating the answer...")>>, <<"created_at", Str("now")>>,
      <<"pending", Bool(TRUE)>>>>>>

\* the time stamps Date.now() can give to a send: later than the stamp of
\* every send whose message is still shown
Now(msgs) ==
  {now \in Clock : \A j \in DOMAIN msgs :
     Get(msgs[j], "role") = Str("user") => Get(msgs[j], "id").n < now}

\* a faulty sendMessage: without the return on isSending
sendMessage_Reentrant(now) ==
  /\ InConversations
  /\ IF ~Truthy(teacher.selectedConversationId)
     THEN Start("sendMessage:invalid",
                [t |-> [teacher EXCEPT !.errorMessage = "select a conversation first"],
                 reqs |-> <<>>])
     ELSE IF Trim(teacher.draftMessage) = <<>>
     THEN Start("sendMessage:invalid",
                [t |-> [teacher EXCEPT !.errorMessage = "the message must not be empty"],
                 reqs |-> <<>>])
     ELSE /\ now \in Now(teacher.messages)
          /\ Start(IF teacher.isSending THEN "sendMessage:busy" ELSE "sendMessage:request",
                   [t |-> [teacher EXCEPT
                             !.errorMessage = "", !.isSending = TRUE, !.draftMessage = <<>>,
                             !.messages = @ \o Placeholders(now, Trim(teacher.draftMessage))],
                    reqs |-> <<Await("sendMessage",
                                     "/conversations/" \o JsString(teacher.selectedConversationId)
                                       \o "/messages",
                                     "POST",
                                     TeacherBody(viewAuth,
                                       <<<<"content", Str(Join(Trim(teacher.draftMessage)))>>>>),
                                     viewAuth, Num(now + 1), <<>>)>>])

\* a faulty sendMessage: the request is addressed to the first conversation
\* of the list
sendMessage_ToFirstItem(now) ==
  /\ InConversations
  /\ IF ~Truthy(teacher.selectedConversationId)
     THEN Start("sendMessage:invalid",
                [t |-> [teacher EXCEPT !.errorMessage = "select a conversation first"],
                 reqs |-> <<>>])
     ELSE IF Trim(teacher.draftMessage) = <<>>
     THEN Start("sendMessage:invalid",
                [t |-> [teacher EXCEPT !.errorMessage = "the message must not be empty"],
                 reqs |-> <<>>])
     ELSE IF teacher.isSending
     THEN Start("sendMessage:busy", [t |-> [teacher EXCEPT !.errorMessage = ""], reqs |-> <<>>])
     ELSE /\ now \in Now(teacher.messages)
          /\ teacher.conversations # <<>>
          /\ Start("sendMessage:request",
                   [t |-> [teacher EXCEPT
                             !.errorMessage = "", !.isSending = TRUE, !.draftMessage = <<>>,
                             !.messages = @ \o Placeholders(now, Trim(teacher.draftMessage))],
                    reqs |-> <<Await("sendMessage",
                                     "/conversations/"
                                       \o JsString(Get(teacher.conversations[1], "conversation_id"))
                                       \o "/messages",
                                     "POST",
                                     TeacherBody(viewAuth,
                                       <<<<"content", Str(Join(Trim(teacher.draftMessage)))>>>>),
                                     viewAuth, Num(now + 1), <<>>)>>])

\* sendMessage up to its request, run at time `now`.  The handler awaits
\* scrollToBottom() between the pushes and the request; that await is
\* nextTick(), a promise the render flush of the same task settles, so the
\* handler goes on within the microtasks of the event that called it and no
\* other handler and no response runs in between.  The literals are the
\* Chinese for "select a conversation first" and "the message must not be
\* empty"
sendMessage(now) ==
  /\ InConversations
  /\ IF ~Truthy(teacher.selectedConversationId)
     THEN Start("sendMessage:invalid",
                [t |-> [teacher EXCEPT !.errorMessage = "select a conversation first"],
                 reqs |-> <<>>])
     ELSE IF Trim(teacher.draftMessage) = <<>>
     THEN Start("sendMessage:invalid",
                [t |-> [teacher EXCEPT !.errorMessage = "the message must not be empty"],
                 reqs |-> <<>>])
     ELSE IF teacher.isSending
     THEN Start("sendMessage:busy", [t |-> [teacher EXCEPT !.errorMessage = ""], reqs |-> <<>>])
     ELSE /\ now \in Now(teacher.messages)
          /\ Start("sendMessage:request",
                   [t |-> [teacher EXCEPT
                             !.errorMessage = "", !.isSending = TRUE, !.draftMessage = <<>>,
                             !.messages = @ \o Placeholders(now, Trim(teacher.draftMessage))],
                    reqs |-> <<Await("sendMessage",
                                     "/conversations/" \o JsString(teacher.selectedConversationId)
                                       \o "/messages",
                                     "POST",
                                     TeacherBody(viewAuth,
                                       <<<<"content", Str(Join(Trim(teacher.draftMessage)))>>>>),
                                     viewAuth, Num(now + 1), <<>>)>>])

\* a faulty sendMessageThen: a failed send leaves its placeholder as it is
sendMessageThen_LeavesPending(t, rq, out) ==
  IF Thrown(out, "assistant_message_id") # ""
  THEN [t |-> [t EXCEPT
                 !.errorMessage = Caught(Thrown(out, "assistant_message_id"), "send failed"),
                 !.isSending = FALSE],
        reqs |-> <<>>]
  ELSE callRefreshConversations(
         [t EXCEPT
            !.messages = Resolved(@, rq.arg,
                           <<<<"id", OrElse(Get(out.obj, "assistant_message_id"), rq.arg)>>,
                             <<"content", OrElse(Get(out.obj, "assistant_answer"),
                                                 Str("(no answer)"))>>,
                             <<"pending", Bool(FALSE)>>>>)],
         rq.auth, <<Frame("sendMessage:afterRefresh", NoOutcome)>>)

\* a faulty sendMessageThen: isSending is not reset after a failed send
sendMessageThen_FailureKeepsSending(t, rq, out) ==
  IF Thrown(out, "assistant_message_id") # ""
  THEN [t |-> [t EXCEPT
                 !.messages = Resolved(@, rq.arg,
                                <<<<"content", Str("request failed, please retry")>>,
                                  <<"pending", Bool(FALSE)>>>>),
                 !.errorMessage = Caught(Thrown(out, "assistant_message_id"), "send failed")],
        reqs |-> <<>>]
  ELSE callRefreshConversations(
         [t EXCEPT
            !.messages = Resolved(@, rq.arg,
                           <<<<"id", OrElse(Get(out.obj, "assistant_message_id"), rq.arg)>>,
                             <<"content", OrElse(Get(out.obj, "assistant_answer"),
                                                 Str("(no answer)"))>>,
                             <<"pending", Bool(FALSE)>>>>)],
         rq.auth, <<Frame("sendMessage:afterRefresh", NoOutcome)>>)

\* sendMessage from its await on: the placeholder of its own temporary id
\* gets the answer (the fallback is the Chinese for "(no answer)"), then the
\* list and the detail are reloaded; on an error it gets the Chinese for
\* "request failed, please retry" and errorMessage the error's message or
\* "send failed"; isSending ends in the finally block
sendMessageThen(t, rq, out) ==
  IF Thrown(out, "assistant_message_id") # ""
  THEN [t |-> [t EXCEPT
                 !.messages = Resolved(@, rq.arg,
                                <<<<"content", Str("request failed, please retry")>>,
                                  <<"pending", Bool(FALSE)>>>>),
                 !.errorMessage = Caught(Thrown(out, "assistant_message_id"), "send failed"),
                 !.isSending = FALSE],
        reqs |-> <<>>]
  ELSE callRefreshConversations(
         [t EXCEPT
            !.messages = Resolved(@, rq.arg,
                           <<<<"id", OrElse(Get(out.obj, "assistant_message_id"), rq.arg)>>,
                             <<"content", OrElse(Get(out.obj, "assistant_answer"),
                                                 Str("(no answer)"))>>,
                             <<"pending", Bool(FALSE)>>>>)],
         rq.auth, <<Frame("sendMessage:afterRefresh", NoOutcome)>>)

sendMessageSettled(i, resp) ==
  /\ inflight[i].h = "sendMessage"
  /\ \E out \in {request(resp)} :
       Goes("sendMessage", i, resp, out, sendMessageThen(teacher, inflight[i], out))

\* the characters of a text renameValue can hold: what is typed into the
\* rename input, or the name the server gives
Chars(str) ==
  CHOOSE cs \in {<<>>, <<" ">>, <<"r", "e", "n", "a", "m", "e", "d">>} :
    Join(cs) = str

\* the message of the handlers that need a conversation: the Chinese for
\* "select a conversation first"
NoConversation == [t |-> [teacher EXCEPT !.errorMessage = "select a conversation first"],
                   reqs |-> <<>>]

\* a request of a handler on the selected conversation
Change(h, path, method, more) ==
  [t |-> [teacher EXCEPT !.errorMessage = ""],
   reqs |-> <<Await(h, "/conversations/" \o JsString(teacher.selectedConversationId) \o path,
                    method, TeacherBody(viewAuth, more), viewAuth, Null, <<>>)>>]

\* a handler on the selected conversation from its await on: `fallback` is
\* shown for an error without message, else the handler goes on with r
Changed(h, i, resp, fallback, r) ==
  /\ inflight[i].h = h
  /\ \E out \in {request(resp)} :
       Goes(h, i, resp, out,
            IF out.kind = "reject"
            THEN [t |-> [teacher EXCEPT !.errorMessage = Caught(out.message, fallback)],
                  reqs |-> <<>>]
            ELSE r)

\* a faulty renameConversation: the name is not checked
renameConversation_Unchecked ==
  /\ InConversations
  /\ IF ~Truthy(teacher.selectedConversationId)
     THEN Start("renameConversation:invalid", NoConversation)
     ELSE Start("renameConversation:request",
                Change("renameConversation", "/rename", "PUT",
                       <<<<"new_name", Str(Join(Trim(Chars(teacher.renameValue.s))))>>,
                         <<"sync_ragflow", Bool(TRUE)>>, <<"sync_session", Bool(TRUE)>>>>))

\* renameConversation; the second message is the Chinese for "the name must
\* not be empty", the fallback of its catch for "rename failed"
renameConversation ==
  /\ InConversations
  /\ IF ~Truthy(teacher.selectedConversationId)
     THEN Start("renameConversation:invalid", NoConversation)
     ELSE IF Trim(Chars(teacher.renameValue.s)) = <<>>
     THEN Start("renameConversation:invalid",
                [t |-> [teacher EXCEPT !.errorMessage = "the name must not be empty"],
                 reqs |-> <<>>])
     ELSE Start("renameConversation:request",
                Change("renameConversation", "/rename", "PUT",
                       <<<<"new_name", Str(Join(Trim(Chars(teacher.renameValue.s))))>>,
                         <<"sync_ragflow", Bool(TRUE)>>, <<"sync_session", Bool(TRUE)>>>>))

renameConversationSettled(i, resp) ==
  Changed("renameConversation", i, resp, "rename failed",
          callRefreshConversations(teacher, inflight[i].auth, <<>>))

\* clearConversation; the fallback of its catch is the Chinese for "clear
\* failed"
clearConversation ==
  /\ InConversations
  /\ IF ~Truthy(teacher.selectedConversationId)
     THEN Start("clearConversation:invalid", NoConversation)
     ELSE Start("clearConversation:request",
                Change("clearConversation", "/clear", "POST",
                       <<<<"sync_ragflow", Bool(TRUE)>>, <<"reset_session", Bool(TRUE)>>>>))

clearConversationSettled(i, resp) ==
  Changed("clearConversation", i, resp, "clear failed",
          callLoadConversationDetail(teacher, inflight[i].auth, teacher.selectedConversationId,
                                     <<>>))

\* deleteConversation; the fallback of its catch is the Chinese for "delete
\* failed"
deleteConversation ==
  /\ InConversations
  /\ IF ~Truthy(teacher.selectedConversationId)
     THEN Start("deleteConversation:invalid", NoConversation)
     ELSE Start("deleteConversation:request",
                Change("deleteConversation", "", "DELETE", <<<<"sync_ragflow", Bool(TRUE)>>>>))

deleteConversationSettled(i, resp) ==
  Changed("deleteConversation", i, resp, "delete failed",
          callRefreshConversations(
            [teacher EXCEPT !.selectedConversationId = Null, !.messages = <<>>],
            inflight[i].auth, <<>>))

\* updateSettings; the fallback of its catch is the Chinese for "update of
\* the settings failed"
updateSettings ==
  /\ InConversations
  /\ IF ~Truthy(teacher.selectedConversationId)
     THEN Start("updateSettings:invalid", NoConversation)
     ELSE Start("updateSettings:request",
                Change("updateSettings", "/settings", "PUT",
                       <<<<"model_name", OrElse(teacher.settings.modelName, Undefined)>>,
                         <<"system_prompt", OrElse(teacher.settings.systemPrompt, Undefined)>>,
                         <<"top_n", teacher.settings.topN>>,
                         <<"similarity_threshold", teacher.settings.similarityThreshold>>,
                         <<"show_citations", teacher.settings.showCitations>>,
                         <<"sync_ragflow", Bool(TRUE)>>>>))

updateSettingsSettled(i, resp) ==
  Changed("updateSettings", i, resp, "update of the settings failed",
          callLoadConversationDetail(teacher, inflight[i].auth, teacher.selectedConversationId,
                                     <<>>))

(***************************************************************************)
(* views/TeacherView.vue: the sections "files" and "search", and the two   *)
(* selects of the control panel.  (The filters of the file list stay       *)
(* empty; section "embedding" lists the files as "files" does.)            *)
(***************************************************************************)
\* loadFiles up to its await
callLoadFiles(t, auth) ==
  IF ~Truthy(t.classCode)
  THEN [t |-> [t EXCEPT !.errorMessage = "select a class first"], reqs |-> <<>>]
  ELSE [t |-> [t EXCEPT !.errorMessage = ""],
        reqs |-> <<Await("loadFiles",
                         "/documents?" \o TeacherParams(auth) \o "&class_code="
                           \o JsString(t.classCode) \o "&page=1&page_size=50",
                         "GET", EmptyObj, auth, Null, <<>>)>>]

\* watch(classCode) and watch(section): the same callback
Watch(t, auth) ==
  IF ~Truthy(t.classCode) THEN [t |-> t, reqs |-> <<>>]
  ELSE CASE t.section = "conversation" -> callRefreshConversations(t, auth, <<>>)
         [] t.section = "search" -> [t |-> [t EXCEPT !.searchResults = <<>>], reqs |-> <<>>]
         [] OTHER -> callLoadFiles(t, auth)

\* v-model on the select of the section
setSection(sec) ==
  /\ route = "/teacher" /\ sec # teacher.section
  /\ Start("setSection", Watch([teacher EXCEPT !.section = sec], viewAuth))

\* v-model on the select of the class: no class, or one of the list
selectClass(code) ==
  /\ route = "/teacher" /\ code # teacher.classCode
  /\ Start("selectClass", Watch([teacher EXCEPT !.classCode = code], viewAuth))

\* onFileChange and v-model on the query of the search
editFileInputs(file, query) ==
  /\ route = "/teacher" /\ teacher.section \in {"files", "search"}
  /\ teacher' = [teacher EXCEPT !.fileToUpload = file, !.searchQuery = query]
  /\ teacher' # teacher
  /\ ev' = Step("editFileInputs")
  /\ UNCHANGED <<storage, route, login, viewAuth, admin, inflight, lastWrite>>

\* the button "refresh the files"
loadFiles ==
  /\ route = "/teacher" /\ teacher.section = "files"
  /\ Start(IF Truthy(teacher.classCode) THEN "loadFiles:request" ELSE "loadFiles:invalid",
           callLoadFiles(teacher, viewAuth))

\* loadFiles from its await on; the fallback is the Chinese for "query of
\* the files failed"
loadFilesSettled(i, resp) ==
  /\ inflight[i].h = "loadFiles"
  /\ \E out \in {request(resp)} :
       Goes("loadFiles", i, resp, out,
            [t |-> IF Thrown(out, "items") # ""
                   THEN [teacher EXCEPT !.errorMessage =
                           Caught(Thrown(out, "items"), "query of the files failed")]
                   ELSE [teacher EXCEPT !.fileRows = OrElse(Get(out.obj, "items"), Arr(<<>>)).xs],
             reqs |-> <<>>])

\* uploadFile, which calls fetch itself; the second message is the Chinese
\* for "choose the file to upload"
uploadFile ==
  /\ route = "/teacher" /\ teacher.section = "files"
  /\ IF ~Truthy(teacher.classCode)
     THEN Start("uploadFile:invalid",
                [t |-> [teacher EXCEPT !.errorMessage = "select a class first"], reqs |-> <<>>])
     ELSE IF ~Truthy(teacher.fileToUpload)
     THEN Start("uploadFile:invalid",
                [t |-> [teacher EXCEPT !.errorMessage = "choose the file to upload"],
                 reqs |-> <<>>])
     ELSE Start("uploadFile:request",
                [t |-> [teacher EXCEPT !.errorMessage = ""],
                 reqs |-> <<Await("uploadFile", "/documents/upload", "POST",
                                  <<<<"role", Str("teacher")>>,
                                    <<"uploader_id", Str(JsString(AuthId(viewAuth)))>>,
                                    <<"class_code", teacher.classCode>>,
                                    <<"file", teacher.fileToUpload>>>>,
                                  viewAuth, Null, <<>>)>>])

\* what uploadFile makes of the response of its fetch: the body of a
\* response that is not ok is read for "detail" (the other message is the
\* Chinese for "file upload failed: " and the status), the body of one that
\* is ok is not read
uploaded(resp) ==
  IF ~resp.net THEN Reject("TypeError", FetchErrorMessage)
  ELSE IF ~Ok(resp.status)
  THEN LET p == JSONparse(resp.body)
           data == IF p.ok THEN p ELSE CaughtEmpty
       IN IF data.isNull THEN Reject("TypeError", TypeErrorMessage)
          ELSE Reject("Error",
                      JsString(OrElse(Get(data.obj, "detail"),
                                      Str("file upload failed: " \o NatToString(resp.status)))))
  ELSE Resolve(CaughtEmpty)

\* uploadFile from its await on: the file is forgotten and the list reloaded
uploadFileSettled(i, resp) ==
  /\ inflight[i].h = "uploadFile"
  /\ \E out \in {uploaded(resp)} :
       Goes("uploadFile", i, resp, out,
            IF out.kind = "reject"
            THEN [t |-> [teacher EXCEPT !.errorMessage =
                           Caught(out.message, "file upload failed")],
                  reqs |-> <<>>]
            ELSE callLoadFiles([teacher EXCEPT !.fileToUpload = Null], inflight[i].auth))

\* runSearch (the button of section "search"); the second message is the
\* Chinese for "enter the question to search for".  (top_k and the
\* threshold keep their defaults 5 and 0.2, written in tenths.)
runSearch ==
  /\ route = "/teacher" /\ teacher.section = "search"
  /\ IF ~Truthy(teacher.classCode)
     THEN Start("runSearch:invalid",
                [t |-> [teacher EXCEPT !.errorMessage = "select a class first",
                                       !.searchResults = <<>>],
                 reqs |-> <<>>])
     ELSE IF Trim(teacher.searchQuery) = <<>>
     THEN Start("runSearch:invalid",
                [t |-> [teacher EXCEPT !.errorMessage = "enter the question to search for",
                                       !.searchResults = <<>>],
                 reqs |-> <<>>])
     ELSE Start("runSearch:request",
                [t |-> [teacher EXCEPT !.errorMessage = "", !.searchResults = <<>>],
                 reqs |-> <<Await("runSearch", "/search", "POST",
                                  Members(<<<<"query", Str(Join(Trim(teacher.searchQuery)))>>,
                                            <<"role", Str("teacher")>>,
                                            <<"user_id", AuthId(viewAuth)>>,
                                            <<"class_code", teacher.classCode>>,
                                            <<"top_k", Num(5)>>,
                                            <<"similarity_threshold", Num(2)>>,
                                            <<"highlight", Bool(TRUE)>>>>),
                                  viewAuth, Null, <<>>)>>])

\* runSearch from its await on; the fallback is the Chinese for "search
\* failed"
runSearchSettled(i, resp) ==
  /\ inflight[i].h = "runSearch"
  /\ \E out \in {request(resp)} :
       Goes("runSearch", i, resp, out,
            [t |-> IF Thrown(out, "chunks") # ""
                   THEN [teacher EXCEPT !.errorMessage =
                           Caught(Thrown(out, "chunks"), "search failed")]
                   ELSE [teacher EXCEPT !.searchResults =
                           OrElse(Get(out.obj, "chunks"), Arr(<<>>)).xs],
             reqs |-> <<>>])

(***************************************************************************)
(* views/AdminView.vue: what the mount hooks start.  section is "audit"    *)
(* and tab is "pending" from the setup on.                                 *)
(***************************************************************************)
\* the literals are the Chinese for these
LoadFailed == "load failed"
Unknown == "unknown"
PendingStatus == "pending review"

buildUploaderShort(uploader) ==
  IF Truthy(Get(uploader.xs, "name")) THEN Get(uploader.xs, "name") ELSE Str(Unknown)

\* the row loadPending makes of an item of /audits/pending
PendingRow(item) ==
  <<<<"key", Str("pending-" \o JsString(Get(item, "id")))>>,
    <<"source", Str("pending")>>,
    <<"document_id", Get(item, "id")>>,
    <<"name", Get(item, "original_name")>>,
    <<"class_name",
      OrElse(Get(item, "class_name"),
             OrElse(Get(item, "class_code"), Str("class" \o JsString(Get(item, "kb_id")))))>>,
    <<"statusText", Str(PendingStatus)>>,
    <<"time", Get(item, "uploaded_at")>>,
    <<"uploader",
      IF Truthy(Get(item, "uploader"))
      THEN Str(JsString(Get(Get(item, "uploader").xs, "role")) \o "#"
                 \o JsString(Get(Get(item, "uploader").xs, "no")))
      ELSE Str(Unknown)>>,
    <<"uploader_name", buildUploaderShort(Get(item, "uploader"))>>>>

\* loadData (from onMounted) after the await of loadPending
loadPendingSettled(i, resp) ==
  /\ inflight[i].h = "loadPending"
  /\ \E out \in {request(resp)}, rq \in {inflight[i]} :
       /\ admin' =
            IF ~rq.live THEN admin
            ELSE IF out.kind = "reject"
            THEN [admin EXCEPT !.errorMessage = Caught(out.message, LoadFailed)]
            ELSE [admin EXCEPT !.auditRows = [j \in DOMAIN out.xs |-> PendingRow(out.xs[j])]]
       /\ inflight' = Remove(inflight, i)
       /\ ev' = Settled("loadPending", resp, out)
       /\ UNCHANGED <<storage, route, login, viewAuth, teacher, lastWrite>>

\* loadClassOptions (from onMounted) after its await; nothing catches a
\* rejection of its request
loadClassOptionsSettled(i, resp) ==
  /\ inflight[i].h = "loadClassOptions"
  /\ \E out \in {request(resp)}, rq \in {inflight[i]} :
       /\ admin' = IF rq.live /\ out.kind = "resolve"
                   THEN [admin EXCEPT !.classOptions = out.xs]
                   ELSE admin
       /\ inflight' = Remove(inflight, i)
       /\ ev' = Settled(IF out.kind = "reject" THEN "loadClassOptions:unhandled"
                        ELSE "loadClassOptions", resp, out)
       /\ UNCHANGED <<storage, route, login, viewAuth, teacher, lastWrite>>

(***************************************************************************)
(* views/AdminView.vue: the section "audit".  (The literals are the        *)
(* Chinese for them; the parentheses of buildUploaderFull and of the       *)
(* uploader of a detail are the full-width ones.)                          *)
(***************************************************************************)
DecidedStatus(decision) == IF decision = Str("approved") THEN "approved" ELSE "rejected"

buildUploaderFull(uploader) ==
  IF uploader.t = "obj" /\ Truthy(Get(uploader.xs, "name"))
  THEN Str(JsString(Get(uploader.xs, "name")) \o "(" \o JsString(Get(uploader.xs, "role"))
             \o "#" \o JsString(Get(uploader.xs, "no")) \o ")")
  ELSE Str(Unknown)

\* the row loadHistory makes of an item of /audits
HistoryRow(item) ==
  <<<<"key", Str("history-" \o JsString(Get(item, "audit_id")))>>,
    <<"source", Str("history")>>,
    <<"audit_id", Get(item, "audit_id")>>,
    <<"document_id", Get(item, "document_id")>>,
    <<"name", Get(item, "document_name")>>,
    <<"class_name", OrElse(Get(item, "class_name"), OrElse(Get(item, "class_code"), Str("")))>>,
    <<"statusText", Str(DecidedStatus(Get(item, "decision")))>>,
    <<"time", Get(item, "decided_at")>>,
    <<"uploader",
      IF Truthy(Get(item, "uploader"))
      THEN Str(JsString(Get(Get(item, "uploader").xs, "role")) \o "#"
                 \o JsString(Get(Get(item, "uploader").xs, "no")))
      ELSE Str(Unknown)>>,
    <<"uploader_name", buildUploaderShort(Get(item, "uploader"))>>>>

\* the detail selectAuditRow builds from a row of source "pending"
RowDetail(row) ==
  Obj(<<<<"document_id", Get(row, "document_id")>>,
        <<"document_name", Get(row, "name")>>,
        <<"class_name", Get(row, "class_name")>>,
        <<"uploader",
          IF Truthy(Get(row, "uploader_name"))
          THEN Str(JsString(Get(row, "uploader_name")) \o "("
                     \o JsString(Get(row, "uploader")) \o ")")
          ELSE Get(row, "uploader")>>,
        <<"statusText", Get(row, "statusText")>>,
        <<"time", Get(row, "time")>>>>)

\* the detail selectAuditRow builds from the data of GET /audits/{id}
DataDetail(data) ==
  Obj(<<<<"document_id", Get(Get(data, "document").xs, "document_id")>>,
        <<"document_name", Get(Get(data, "document").xs, "document_name")>>,
        <<"class_name", Get(Get(data, "document").xs, "class_name")>>,
        <<"uploader", buildUploaderFull(Get(data, "uploader"))>>,
        <<"statusText", Str(DecidedStatus(Get(data, "decision")))>>,
        <<"time", Get(data, "decided_at")>>>>)

\* a handler of AdminView runs up to its await or its end
AdminStart(o, a, reqs) ==
  /\ Len(inflight) + Len(reqs) <= MaxStarted
  /\ admin' = a
  /\ inflight' = inflight \o reqs
  /\ ev' = Step(o)
  /\ UNCHANGED <<storage, route, login, viewAuth, teacher, lastWrite>>

\* the request i has settled and the handler awaiting it has run on
AdminGoes(o, i, resp, out, a, reqs) ==
  /\ admin' = IF inflight[i].live THEN a ELSE admin
  /\ inflight' = Remove(inflight, i)
                   \o [j \in DOMAIN reqs |-> [reqs[j] EXCEPT !.live = inflight[i].live]]
  /\ ev' = Settled(o, resp, out)
  /\ UNCHANGED <<storage, route, login, viewAuth, teacher, lastWrite>>

\* loadData in section "audit" up to its await
callLoadData(a, auth) ==
  [a |-> [a EXCEPT !.errorMessage = "", !.auditDetail = Null, !.selectedKey = Null],
   reqs |-> <<IF a.tab = "pending"
              THEN Req("loadPending", "/audits/pending", "GET", EmptyObj, auth, Null)
              ELSE Req("loadHistory",
                       "/audits?" \o AdminParams(auth) \o "&page=1&page_size=20", "GET",
                       EmptyObj, auth, Null)>>]

\* v-model on the select of the audit filter; watch(tab) calls loadData
setTab(tab) ==
  /\ route = "/admin" /\ admin.section = "audit"
  /\ tab # admin.tab
  /\ \E r \in {callLoadData([admin EXCEPT !.tab = tab], viewAuth)} :
       AdminStart("setTab", r.a, r.reqs)

\* loadData after the await of loadHistory
loadHistorySettled(i, resp) ==
  /\ inflight[i].h = "loadHistory"
  /\ \E out \in {request(resp)} :
       AdminGoes("loadHistory", i, resp, out,
                 IF Thrown(out, "items") # ""
                 THEN [admin EXCEPT !.errorMessage = Caught(Thrown(out, "items"), LoadFailed)]
                 ELSE LET items == OrElse(Get(out.obj, "items"), Arr(<<>>)).xs
                      IN [admin EXCEPT !.auditRows =
                            [j \in DOMAIN items |-> HistoryRow(items[j])]],
                 <<>>)

\* a click on row j of the audit list
selectAuditRow(j) ==
  /\ route = "/admin" /\ admin.section = "audit"
  /\ j \in DOMAIN admin.auditRows
  /\ \E row \in {admin.auditRows[j]} :
     \E a \in {[admin EXCEPT !.selectedKey = Get(row, "key"), !.decisionReason = Str("")]} :
       IF Get(row, "source") = Str("pending")
       THEN AdminStart("selectAuditRow", [a EXCEPT !.auditDetail = RowDetail(row)], <<>>)
       ELSE AdminStart("selectAuditRow:request", a,
                       <<Req("selectAuditRow",
                             "/audits/" \o JsString(Get(row, "audit_id")) \o "?"
                               \o AdminParams(viewAuth),
                             "GET", EmptyObj, viewAuth, Get(row, "audit_id"))>>)

\* the message of the TypeError selectAuditRow meets in data.document
DocumentReadMessage(out) ==
  IF Thrown(out, "document") # "" THEN Thrown(out, "document")
  ELSE IF Get(out.obj, "document").t = "null" THEN NullReadMessage("document_id")
  ELSE IF Get(out.obj, "document").t = "undef"
  THEN "Cannot read properties of undefined (reading 'document_id')"
  ELSE ""

\* selectAuditRow after its await
selectAuditRowSettled(i, resp) ==
  /\ inflight[i].h = "selectAuditRow"
  /\ \E out \in {request(resp)} :
       AdminGoes("selectAuditRow", i, resp, out,
                 IF DocumentReadMessage(out) # ""
                 THEN [admin EXCEPT !.errorMessage =
                         Caught(DocumentReadMessage(out), "load detail failed")]
                 ELSE [admin EXCEPT !.auditDetail = DataDetail(out.obj)],
                 <<>>)

\* the two decision buttons, which the template shows on the tab "pending"
\* when a detail is shown
submitDecision(decision) ==
  /\ route = "/admin" /\ admin.section = "audit"
  /\ admin.tab = "pending" /\ admin.auditDetail # Null
  /\ IF ~Truthy(Get(admin.auditDetail.xs, "document_id"))
     THEN AdminStart("submitDecision:invalid", admin, <<>>)
     ELSE AdminStart("submitDecision:request", admin,
                     <<Req("submitDecision",
                           "/audits/" \o JsString(Get(admin.auditDetail.xs, "document_id"))
                             \o "/decision",
                           "POST",
                           Members(<<<<"reviewer_admin_id", adminId(viewAuth)>>,
                                     <<"decision", Str(decision)>>,
                                     <<"reason", OrElse(admin.decisionReason, Undefined)>>>>),
                           viewAuth, Get(admin.auditDetail.xs, "document_id"))>>)

\* submitDecision after its await: loadData, or the error
submitDecisionSettled(i, resp) ==
  /\ inflight[i].h = "submitDecision"
  /\ \E out \in {request(resp)}, r \in {callLoadData(admin, inflight[i].auth)} :
       IF out.kind = "reject"
       THEN AdminGoes("submitDecision", i, resp, out,
                      [admin EXCEPT !.errorMessage = Caught(out.message, "submit failed")],
                      <<>>)
       ELSE AdminGoes("submitDecision", i, resp, out, r.a, r.reqs)

(***************************************************************************)
(* The specification: the user opens pages, logs in and logs out; the      *)
(* requests in flight settle in any order.                                 *)
(***************************************************************************)
Next ==
  \/ \E p \in Paths : PageLoad(p)
  \/ \E r \in Roles, a \in Accounts, pw \in Passwords : editLoginForm(r, a, pw)
  \/ handleLogin
  \/ \E i \in DOMAIN inflight : \E resp \in LoginResponses(inflight[i].url) :
       handleLoginSettled(i, resp)
  \/ logout
  \/ \E i \in DOMAIN inflight : \E resp \in ClassListResponses : loadClassesSettled(i, resp)
  \/ \E i \in DOMAIN inflight : \E resp \in ConversationListResponses :
       refreshConversationsSettled(i, resp)
  \/ \E i \in DOMAIN inflight : \E resp \in ConversationDetailResponses :
       loadConversationDetailSettled(i, resp)
  \/ \E i \in DOMAIN inflight : \E resp \in PendingResponses : loadPendingSettled(i, resp)
  \/ \E i \in DOMAIN inflight : \E resp \in ClassListResponses : loadClassOptionsSettled(i, resp)

Spec == Init /\ [][Next]_vars

(***************************************************************************)
(* The specification of the teacher at work: the teacher opens the page,   *)
(* logs in, and works in TeacherView, waiting each time for what is in     *)
(* flight to settle.  The lists of classes and of conversations have at    *)
(* most one row, and a message is sent at time T0 (so not while a message  *)
(* sent before is still shown).                                            *)
(***************************************************************************)
Drafts == {<<" ">>, <<"h", "i">>}
RenameInputs == {<<" ">>}

TeacherSession == SessionBody("teacher", 1)

\* the responses to a request whose body the handler does not read
AckResponses == {NetworkFailure, Response(200, ObjText(<<>>))}

\* GET /teachers/{id}/classes, GET /conversations, GET /documents, POST
\* /search and GET /conversations/{id}; the rows of a file list, the chunks
\* of a search and the messages of a detail are shown as they come: a list
\* that is empty or has one row stands for them.  The lists of classes and
\* of conversations have up to n rows.
TeacherReads(h, n) ==
  {NetworkFailure}
    \cup CASE h = "loadClasses" ->
                {Response(200, ArrText(SubSeq(ClassInfoTable, 1, m))) : m \in 0..n}
           [] h = "refreshConversations" ->
                {Response(200, ObjText(<<<<"items", Arr(SubSeq(ConversationSummaryTable, 1, m))>>>>)) :
                   m \in 0..n}
           [] h = "loadFiles" ->
                {Response(200, ObjText(<<<<"items", Arr(l)>>>>)) : l \in {<<>>, <<PendingItem(1)>>}}
           [] h = "runSearch" ->
                {Response(200, NullText), Response(200, ObjText(<<>>)),
                 Response(200, ObjText(<<<<"chunks", Arr(<<MessageItem(1)>>)>>>>))}
           [] OTHER -> {Response(200, ConversationDetail(l)) : l \in {<<>>, <<MessageItem(1)>>}}

\* POST /conversations: the id of the new conversation
CreateResponses ==
  {NetworkFailure, Response(200, NullText)}
    \cup {Response(200, ObjText(<<<<"conversation_id", Num(j)>>>>)) : j \in 1..MaxRows}

\* POST /conversations/{id}/messages: the answer and the id of its message
SendResponses ==
  {NetworkFailure, Response(200, NullText), Response(200, ObjText(<<>>)),
   Response(200, ObjText(<<<<"assistant_message_id", Num(MaxRows + 1)>>,
                           <<"assistant_answer", Str("answer")>>>>))}

InitTeacher == Init /\ storage = NoItem

\* nothing is in flight: the teacher acts only then
Quiet == inflight = <<>>

NextTeacher ==
  \/ PageLoad("/teacher")
  \/ Quiet /\ \E a \in Accounts, pw \in Passwords : editLoginForm("teacher", a, pw)
  \/ Quiet /\ handleLogin
  \/ Quiet /\ \E draft \in Drafts, name \in RenameInputs :
                editConversationInputs(draft, Str(Join(name)))
  \/ Quiet /\ refreshConversations
  \/ Quiet /\ createConversation
  \/ Quiet /\ \E j \in DOMAIN teacher.conversations :
                selectConversation(Get(teacher.conversations[j], "conversation_id"))
  \/ Quiet /\ sendMessage(T0)
  \/ Quiet /\ renameConversation
  \/ Quiet /\ clearConversation
  \/ Quiet /\ deleteConversation
  \/ Quiet /\ updateSettings
  \/ Quiet /\ \E sec \in {"conversation", "files", "search"} : setSection(sec)
  \/ Quiet /\ \E code \in {Str("")} \cup {Get(teacher.classes[j], "class_code") :
                                           j \in DOMAIN teacher.classes} :
                selectClass(code)
  \/ Quiet /\ editFileInputs(Str("f.xlsx"), <<"q">>)
  \/ Quiet /\ loadFiles
  \/ Quiet /\ uploadFile
  \/ Quiet /\ runSearch
  \/ \E i \in DOMAIN inflight : \E resp \in {NetworkFailure, Response(200, TeacherSession)} :
       handleLoginSettled(i, resp)
  \/ \E i \in DOMAIN inflight : \E resp \in TeacherReads("loadClasses", 1) :
       loadClassesSettled(i, resp)
  \/ \E i \in DOMAIN inflight : \E resp \in TeacherReads("refreshConversations", 1) :
       refreshConversationsSettled(i, resp)
  \/ \E i \in DOMAIN inflight : \E resp \in TeacherReads("loadConversationDetail", 1) :
       loadConversationDetailSettled(i, resp)
  \/ \E i \in DOMAIN inflight : \E resp \in CreateResponses : createConversationSettled(i, resp)
  \/ \E i \in DOMAIN inflight : \E resp \in SendResponses : sendMessageSettled(i, resp)
  \/ \E i \in DOMAIN inflight : \E resp \in AckResponses : renameConversationSettled(i, resp)
  \/ \E i \in DOMAIN inflight : \E resp \in AckResponses : clearConversationSettled(i, resp)
  \/ \E i \in DOMAIN inflight : \E resp \in AckResponses : deleteConversationSettled(i, resp)
  \/ \E i \in DOMAIN inflight : \E resp \in AckResponses : updateSettingsSettled(i, resp)
  \/ \E i \in DOMAIN inflight : \E resp \in TeacherReads("loadFiles", 1) : loadFilesSettled(i, resp)
  \/ \E i \in DOMAIN inflight : \E resp \in AckResponses \cup {Response(500, ObjText(<<>>))} :
       uploadFileSettled(i, resp)
  \/ \E i \in DOMAIN inflight : \E resp \in TeacherReads("runSearch", 1) : runSearchSettled(i, resp)

SpecTeacher == InitTeacher /\ [][NextTeacher]_vars

(***************************************************************************)
(* The specification of the impatient teacher: with a session stored, the  *)
(* teacher opens the page and selects, refreshes and sends without waiting *)
(* for what is in flight.                                                  *)
(***************************************************************************)
InitOverlap == Init /\ storage = TeacherSession

NextOverlap ==
  \/ PageLoad("/teacher")
  \/ \E i \in DOMAIN inflight : \E resp \in TeacherReads("loadClasses", MaxRows) :
       loadClassesSettled(i, resp)
  \/ \E i \in DOMAIN inflight : \E resp \in TeacherReads("refreshConversations", MaxRows) :
       refreshConversationsSettled(i, resp)
  \/ \E i \in DOMAIN inflight : \E resp \in TeacherReads("loadConversationDetail", MaxRows) :
       loadConversationDetailSettled(i, resp)
  \/ editConversationInputs(<<"h", "i">>, teacher.renameValue)
  \/ refreshConversations
  \/ \E j \in DOMAIN teacher.conversations :
       selectConversation(Get(teacher.conversations[j], "conversation_id"))
  \/ \E now \in Clock : sendMessage(now)
  \/ \E i \in DOMAIN inflight : \E resp \in SendResponses : sendMessageSettled(i, resp)

SpecOverlap == InitOverlap /\ [][NextOverlap]_vars

(***************************************************************************)
(* The conversations of one class with a server that holds two of them:    *)
(* the list is the two, the detail of a conversation has its own name and  *)
(* its own message, a new conversation gets the second id.                 *)
(***************************************************************************)
Conversations == <<ConversationSummary(1), ConversationSummary(2)>>

\* GET /conversations/{j}
ConversationDetailOf(j) ==
  ObjText(<<<<"name", Str(RowName(j))>>, <<"messages", Arr(<<MessageItem(j)>>)>>,
            <<"model_name", Str(RowName(j))>>, <<"system_prompt", Str("p")>>,
            <<"top_n", Num(3)>>, <<"similarity_threshold", Num(0)>>,
            <<"show_citations", Bool(TRUE)>>>>)

\* what the server answers to the request rq, or the request fails
SelectResponses(rq) ==
  {NetworkFailure}
    \cup CASE rq.h = "loadClasses" -> {Response(200, ArrText(<<ClassInfo(1)>>))}
           [] rq.h = "refreshConversations" ->
                {Response(200, ObjText(<<<<"items", Arr(Conversations)>>>>))}
           [] rq.h = "loadConversationDetail" ->
                {Response(200, ConversationDetailOf(rq.arg.n))}
           [] rq.h = "createConversation" ->
                {Response(200, ObjText(<<<<"conversation_id", Num(2)>>>>))}
           [] OTHER ->
                {Response(200, ObjText(<<<<"assistant_message_id", Num(3)>>,
                                         <<"assistant_answer", Str("answer")>>>>))}

InitSelect == Init /\ storage = TeacherSession

NextSelect ==
  \/ PageLoad("/teacher")
  \/ \E i \in DOMAIN inflight : \E resp \in SelectResponses(inflight[i]) :
       loadClassesSettled(i, resp)
  \/ \E i \in DOMAIN inflight : \E resp \in SelectResponses(inflight[i]) :
       refreshConversationsSettled(i, resp)
  \/ \E i \in DOMAIN inflight : \E resp \in SelectResponses(inflight[i]) :
       loadConversationDetailSettled(i, resp)
  \/ editConversationInputs(<<"h", "i">>, teacher.renameValue)
  \/ editNewConversationName(Str("n"))
  \/ refreshConversations
  \/ createConversation
  \/ \E i \in DOMAIN inflight : \E resp \in SelectResponses(inflight[i]) :
       createConversationSettled(i, resp)
  \/ \E j \in DOMAIN teacher.conversations :
       selectConversation(Get(teacher.conversations[j], "conversation_id"))
  \/ sendMessage(T0)
  \/ \E i \in DOMAIN inflight : \E resp \in SelectResponses(inflight[i]) :
       sendMessageSettled(i, resp)

SpecSelect == InitSelect /\ [][NextSelect]_vars

(***************************************************************************)
(* The administrator at the audits, with a server that holds one pending   *)
(* document (id 1) and one decided audit (id 2, of document 2).            *)
(***************************************************************************)
HistoryItem(j) ==
  <<<<"audit_id", Num(j)>>, <<"document_id", Num(j)>>, <<"document_name", Str(RowName(j))>>,
    <<"class_name", Str(RowName(j))>>, <<"decision", Str("approved")>>,
    <<"decided_at", Str("t")>>,
    <<"uploader", Obj(<<<<"role", Str("teacher")>>, <<"no", Str("N1")>>, <<"name", Str("A")>>>>)>>>>

\* GET /audits/{j}
AuditDetailOf(j) ==
  ObjText(<<<<"document", Obj(<<<<"document_id", Num(j)>>, <<"document_name", Str(RowName(j))>>,
                                <<"class_name", Str(RowName(j))>>>>)>>,
            <<"uploader", Obj(<<<<"role", Str("teacher")>>, <<"no", Str("N1")>>,
                                <<"name", Str("A")>>>>)>>,
            <<"decision", Str("approved")>>, <<"decided_at", Str("t")>>>>)

\* what the server answers to the request rq, or the request fails
AdminResponses(rq) ==
  {NetworkFailure}
    \cup CASE rq.h = "loadPending" -> {Response(200, ArrText(<<PendingItem(1)>>))}
           [] rq.h = "loadHistory" ->
                {Response(200, ObjText(<<<<"items", Arr(<<HistoryItem(2)>>)>>>>))}
           [] rq.h = "selectAuditRow" -> {Response(200, AuditDetailOf(rq.arg.n))}
           [] rq.h = "loadClassOptions" -> {Response(200, ArrText(<<ClassInfo(1)>>))}
           [] OTHER -> {Response(200, ObjText(<<>>))}

AdminSession == SessionBody("admin", 1)

InitAdmin == Init /\ storage = AdminSession

NextAdmin ==
  \/ PageLoad("/admin")
  \/ \E i \in DOMAIN inflight : \E resp \in AdminResponses(inflight[i]) :
       loadPendingSettled(i, resp)
  \/ \E i \in DOMAIN inflight : \E resp \in AdminResponses(inflight[i]) :
       loadClassOptionsSettled(i, resp)
  \/ \E tab \in {"pending", "history"} : setTab(tab)
  \/ \E i \in DOMAIN inflight : \E resp \in AdminResponses(inflight[i]) :
       loadHistorySettled(i, resp)
  \/ \E j \in DOMAIN admin.auditRows : selectAuditRow(j)
  \/ \E i \in DOMAIN inflight : \E resp \in AdminResponses(inflight[i]) :
       selectAuditRowSettled(i, resp)
  \/ \E decision \in {"approved", "rejected"} : submitDecision(decision)
  \/ \E i \in DOMAIN inflight : \E resp \in AdminResponses(inflight[i]) :
       submitDecisionSettled(i, resp)

SpecAdmin == InitAdmin /\ [][NextAdmin]_vars

(***************************************************************************)
(* Properties.                                                             *)
(***************************************************************************)
\* the session the guard runs of the step just taken have read
GuardAuth == getAuth(storage)

\* the role a route record requires, as a path
RequiredPath(to) == "/" \o JsString(routes(to).role)

\* the path of the stored session's role
SessionPath == "/" \o JsString(Get(GuardAuth.obj, "role"))

\* C1: every guard run on a route that requires authentication, made while
\* getAuth() returns no session, returns the redirect target /login; and no
\* navigation ends on a role view while no session is stored.
C1_UnauthenticatedGoesToLogin ==
  /\ \A i \in DOMAIN ev.hops :
       (routes(ev.hops[i].to).requiresAuth /\ ~GuardAuth.some)
         => (~ev.hops[i].admit /\ ev.hops[i].path = "/login")
  /\ (ev.hops # <<>> /\ route \in RolePaths) => GuardAuth.some

C1_Witness ==
  /\ ev.op = "PageLoad"
  /\ ev.pushed = "/admin"
  /\ storage = RawText("{bad")
  /\ Len(ev.hops) = 2
  /\ route = "/login"

\* C2: every guard run on a role-guarded route whose required role differs
\* from the role of the stored session redirects to /{session role}; a
\* navigation that ends on a role view ends on the view of the session's role.
C2_WrongRoleGoesToOwnView ==
  /\ \A i \in DOMAIN ev.hops :
       (routes(ev.hops[i].to).requiresAuth /\ GuardAuth.some
          /\ RequiredPath(ev.hops[i].to) # SessionPath)
         => (~ev.hops[i].admit /\ ev.hops[i].path = SessionPath)
  /\ (ev.hops # <<>> /\ route \in RolePaths) => (GuardAuth.some /\ route = SessionPath)

C2_Witness ==
  /\ ev.op = "PageLoad"
  /\ ev.pushed = "/student"
  /\ GuardAuth.some
  /\ Get(GuardAuth.obj, "role") = Str("teacher")
  /\ ev.hops[1] = [to |-> "/student", admit |-> FALSE, path |-> "/teacher"]
  /\ route = "/teacher"

\* C3: every guard run on /login made while a session is stored redirects to
\* /{role} of that session, whichever of the three roles it has.
C3_LoginWhileAuthenticatedGoesToOwnView ==
  \A i \in DOMAIN ev.hops :
    (ev.hops[i].to = "/login" /\ GuardAuth.some)
      => /\ ~ev.hops[i].admit
         /\ ev.hops[i].path = SessionPath
         /\ Get(GuardAuth.obj, "role").s \in Roles
         /\ route = SessionPath

C3_Witness ==
  /\ ev.op = "PageLoad"
  /\ ev.pushed = "/login"
  /\ GuardAuth.some
  /\ Get(GuardAuth.obj, "role") = Str("admin")
  /\ route = "/admin"

\* the three redirect rules: does one of them cover the pair (to, session)?
Covered(to, auth) ==
  \/ to = "/login" /\ auth.some
  \/ routes(to).requiresAuth /\ ~auth.some
  \/ routes(to).requiresAuth /\ auth.some
       /\ "/" \o JsString(routes(to).role) # "/" \o JsString(Get(auth.obj, "role"))

\* C4: a guard run on a pair (path, session) that none of the three redirect
\* rules covers admits the navigation: /login with no stored session and a
\* role-guarded path whose role is the session's role end on that very path.
C4_OtherwiseAdmitted ==
  /\ \A i \in DOMAIN ev.hops :
       ~Covered(ev.hops[i].to, GuardAuth) => (ev.hops[i].admit /\ route = ev.hops[i].to)
  /\ \A p \in Paths : ~Covered(p, GuardAuth) => beforeEach(p, storage).admit

C4_Witness ==
  /\ ev.op = "PageLoad"
  /\ ev.pushed = "/student"
  /\ GuardAuth.some
  /\ Get(GuardAuth.obj, "role") = Str("student")
  /\ ev.hops = <<[to |-> "/student", admit |-> TRUE, path |-> ""]>>
  /\ route = "/student"

\* C5: from a setAuth(s) until the next setAuth or clearAuth, getAuth()
\* returns a record that reads as s at every field; from a clearAuth()
\* until the next setAuth, getAuth() returns null.
C5_AuthStoreRoundTrip ==
  /\ lastWrite.kind = "set"
       => /\ getAuth(storage).some
          /\ \A i \in DOMAIN AuthKeys :
               Get(getAuth(storage).obj, AuthKeys[i]) = Get(lastWrite.state, AuthKeys[i])
  /\ lastWrite.kind = "clear" => ~getAuth(storage).some

C5_Witness ==
  /\ lastWrite.kind = "set"
  /\ <<"student_no", Str("N1")>> \in {lastWrite.state[i] : i \in DOMAIN lastWrite.state}
  /\ <<"teacher_no", Undefined>> \in {lastWrite.state[i] : i \in DOMAIN lastWrite.state}
  /\ ev.op = "PageLoad"
  /\ route = "/student"

\* the X of a response whose body is the JSON object {"detail": X}
IsDetailBody(resp) ==
  /\ resp.net
  /\ ~Ok(resp.status)
  /\ resp.body.k = "obj"
  /\ Len(resp.body.pairs) = 1
  /\ resp.body.pairs[1][1] = "detail"

DetailOf(resp) == resp.body.pairs[1][2]

\* C6 as claimed: for every non-2xx response whose body is {"detail": X},
\* request() rejects with an error whose message is exactly X.
C6_Original ==
  (ev.out.kind # "none" /\ IsDetailBody(ev.resp))
    => (ev.out.kind = "reject" /\ Str(ev.out.message) = DetailOf(ev.resp))

\* C6 as amended: for every non-2xx response whose body is {"detail": X}
\* with X a non-empty string, request() rejects with an error whose message
\* is exactly X (and the handler shows X).
C6_NonEmptyDetailIsTheMessage ==
  (ev.out.kind # "none" /\ IsDetailBody(ev.resp)
     /\ DetailOf(ev.resp).t = "str" /\ DetailOf(ev.resp).s # "")
    => /\ ev.out.kind = "reject"
       /\ ev.out.err = "Error"
       /\ ev.out.message = DetailOf(ev.resp).s

C6_Witness ==
  /\ ev.op = "handleLogin:catch"
  /\ ev.resp = Response(500, ObjText(<<<<"detail", Str("X")>>>>))
  /\ login.errorMessage = "X"

\* does the body of a response carry no server message?  It is no JSON, or
\* its value has no "detail" that is a non-empty string or another truthy value
NoServerMessage(resp) ==
  \/ resp.body.k = "raw"
  \/ resp.body.k = "null"
  \/ resp.body.k = "obj" /\ ~Truthy(Get(resp.body.pairs, "detail"))

\* C7 as claimed: for every non-2xx response whose body cannot be parsed as
\* JSON or carries no server message, request() rejects with the generic
\* message built from the status.
C7_Original ==
  (ev.out.kind # "none" /\ ev.resp.net /\ ~Ok(ev.resp.status) /\ NoServerMessage(ev.resp))
    => (ev.out.kind = "reject" /\ ev.out.message = GenericMessage(ev.resp.status))

C9_LoginEndsOnOwnView ==
  ev.op = "handleLogin:then"
    => /\ ev.resp.net /\ Ok(ev.resp.status) /\ ev.resp.body.k = "obj"
       /\ getAuth(storage).some
       /\ \A key \in {"role", "id", "name"} :
            Get(getAuth(storage).obj, key) = Get(ev.resp.body.pairs, key)
       /\ ev.pushed = "/" \o JsString(Get(ev.resp.body.pairs, "role"))
       /\ \A i \in DOMAIN ev.hops : ev.hops[i].to = ev.pushed /\ ev.hops[i].admit
       /\ route = ev.pushed

C9_Witness ==
  /\ ev.op = "handleLogin:then"
  /\ ev.resp = Response(200, SessionBody("student", 1))
  /\ ev.hops = <<[to |-> "/student", admit |-> TRUE, path |-> ""]>>
  /\ route = "/student"
  /\ viewAuth.some
  /\ Get(viewAuth.obj, "id") = Num(1)

\* C10: the stored session changes only in the step in which a login
\* succeeds (setAuth) or in which logout runs (clearAuth): no other step of
\* any view changes it; and a login that fails validation or whose request
\* fails leaves the stored session and the location as they were.
C10_SingleWriter ==
  [][ /\ storage' # storage => ev'.op \in {"handleLogin:then", "logout"}
      /\ ev'.op \in {"handleLogin:invalid", "handleLogin:catch"}
           => (storage' = storage /\ route' = route) ]_vars

C10_Witness ==
  /\ ev.op = "handleLogin:catch"
  /\ ev.resp = Response(401, ObjText(<<<<"detail", Str("X")>>>>))
  /\ login.errorMessage = "X"
  /\ storage = RawText("{bad")
  /\ route = "/login"

\* the errorMessage ref of the view that is mounted
ErrorShown ==
  CASE route = "/login" -> login.errorMessage
    [] route = "/teacher" -> teacher.errorMessage
    [] route = "/admin" -> admin.errorMessage
    [] OTHER -> ""

\* C11 as claimed: a request that fails in a handler of the mounted view,
\* mount hooks included, is caught inside the handler and shown in the view's
\* errorMessage; no rejection leaves a handler uncaught.  (Stated for the
\* steps since the page was opened in which no view was left, so that the
\* handler that settles belongs to the view that is mounted.)
C11_Original ==
  (ev.out.kind = "reject" /\ lastWrite.kind = "none")
    => (ev.op # "loadClassOptions:unhandled" /\ ErrorShown # "")

\* C15 as claimed: every failure of request() is an Error that carries the
\* server's message or the generic message of the status; no other error
\* reaches the handler.
C15_Original ==
  ev.out.kind = "reject"
    => /\ ev.out.err = "Error"
       /\ ev.resp.net
       /\ \/ ev.out.message = GenericMessage(ev.resp.status)
          \/ /\ IsDetailBody(ev.resp)
             /\ Str(ev.out.message) = DetailOf(ev.resp)

C18_Original ==
  [][ \A i \in DOMAIN inflight' :
        (/\ i > (IF ev'.op = "PageLoad" THEN 0
                 ELSE IF ev'.out.kind # "none" THEN Len(inflight) - 1
                 ELSE Len(inflight))
         /\ inflight'[i].h # "handleLogin")
          => AuthId(inflight'[i].auth) = AuthId(getAuth(storage')) ]_vars

(***************************************************************************)
(* request(path, options) on its own: the calls a caller may make.         *)
(***************************************************************************)
RequestPaths == {"/auth/teacher/login", "/audits/pending", "/conversations", "/search"}

\* the headers a caller may put into options (none; an empty object; a
\* header of its own; its own Content-Type; two headers)
OptionHeaders ==
  {Undefined, Obj(<<>>), Obj(<<<<"X-Token", Str("t")>>>>),
   Obj(<<<<"Content-Type", Str("text/plain")>>>>),
   Obj(<<<<"Accept", Str("*/*")>>, <<"X-Token", Str("t")>>>>)}

\* options: undefined, or an object with some of method, body and headers
RequestOptions ==
  {Undefined}
    \cup {Obj(SelectSeq(<<<<"method", m>>, <<"body", b>>, <<"headers", h>>>>,
                        LAMBDA x : x[2] # Undefined)) :
            m \in {Undefined, Str("POST"), Str("PUT")},
            b \in {Undefined, Str("{}")},
            h \in OptionHeaders}

InitRequest ==
  /\ storage = NoItem
  /\ route = ""
  /\ login = LoginRefs
  /\ viewAuth = NoAuth
  /\ teacher = TeacherRefs
  /\ admin = AdminRefs
  /\ inflight = <<>>
  /\ lastWrite = [kind |-> "none", state |-> EmptyObj]
  /\ ev = [op |-> "init", path |-> "", options |-> Undefined]

\* a call request(path, options): the fetch it makes
callRequest(path, options) ==
  /\ inflight' = <<Fetch(path, options)>>
  /\ ev' = [op |-> "request", path |-> path, options |-> options]
  /\ UNCHANGED <<storage, route, login, viewAuth, teacher, admin, lastWrite>>

NextRequest == \E path \in RequestPaths, options \in RequestOptions : callRequest(path, options)

SpecRequest == InitRequest /\ [][NextRequest]_vars

\* C17 as claimed: for every path and every options, the fetch goes to the
\* base URL joined with path, carries Content-Type: application/json, and
\* carries the caller's method and body.
C17_Original ==
  ev.op = "request"
    => /\ inflight[1].url = apiBase \o ev.path
       /\ Get(Get(inflight[1].init, "headers").xs, "Content-Type") = Str("application/json")
       /\ Get(inflight[1].init, "method") = Get(ev.options.xs, "method")
       /\ Get(inflight[1].init, "body") = Get(ev.options.xs, "body")

(***************************************************************************)
(* The optimistic send                                                     *)
(***************************************************************************)
IsPending(msg) == Get(msg, "pending") = Bool(TRUE)

\* C13 (among the states): an entry is pending only while the send whose
\* temporary id it has is in flight, and while a send is in flight every
\* entry that has its temporary id is pending
PendingWhileUnsettled ==
  /\ \A j \in DOMAIN teacher.messages :
       IsPending(teacher.messages[j]) =>
         \E i \in DOMAIN inflight :
           inflight[i].h = "sendMessage" /\ inflight[i].arg = Get(teacher.messages[j], "id")
  /\ \A i \in DOMAIN inflight : \A j \in DOMAIN teacher.messages :
       (inflight[i].h = "sendMessage" /\ inflight[i].live
          /\ Get(teacher.messages[j], "id") = inflight[i].arg)
         => IsPending(teacher.messages[j])

SendOps == {"sendMessage:invalid", "sendMessage:busy", "sendMessage:request"}

\* the sends of the mounted view that await their response
SendsPending == {i \in DOMAIN inflight : inflight[i].h = "sendMessage" /\ inflight[i].live}

OthersKept(before, after) ==
  \E i \in DOMAIN before :
    /\ Len(after) >= Len(before) - 1
    /\ SubSeq(after, 1, Len(before) - 1) = Remove(before, i)

\* C14: a selectConversation or refreshConversations called while requests
\* are in flight sends its request all the same, and no request in flight is
\* withdrawn; whenever a loadConversationDetail or a refreshConversations
\* request settles with a response the handler can read, what the view shows
\* is what that response holds, whichever requests were issued before or
\* after it and are still in flight.  So of two overlapping requests the one
\* that settles last decides.
C14_LastWriteWins ==
  [][/\ ev'.op \in {"selectConversation", "refreshConversations:request"} =>
          /\ Len(inflight') = Len(inflight) + 1
          /\ SubSeq(inflight', 1, Len(inflight)) = inflight
     /\ (ev'.op = "loadConversationDetail" /\ route' \in RolePaths) =>
          /\ OthersKept(inflight, inflight')
          /\ Thrown(ev'.out, "messages") = "" =>
               /\ teacher'.messages = OrElse(Get(ev'.out.obj, "messages"), Arr(<<>>)).xs
               /\ teacher'.renameValue = OrElse(Get(ev'.out.obj, "name"), Str(""))
               /\ teacher'.settings = DetailSettings(ev'.out.obj)
     /\ (ev'.op = "refreshConversations" /\ route' \in RolePaths) =>
          /\ OthersKept(inflight, inflight')
          /\ Thrown(ev'.out, "items") = "" =>
               teacher'.conversations = OrElse(Get(ev'.out.obj, "items"), Arr(<<>>)).xs
    ]_vars

\* of two loadConversationDetail requests in flight at a time, neither of
\* them part of a send, one has settled and is shown and the other is still
\* in flight
C14_Witness ==
  /\ ev.op = "loadConversationDetail" /\ Thrown(ev.out, "messages") = ""
  /\ ~teacher.isSending
  /\ \E i \in DOMAIN inflight :
       inflight[i].h = "loadConversationDetail" /\ inflight[i].k = <<>> /\ inflight[i].live

(***************************************************************************)
(* Validation of the required fields                                       *)
(***************************************************************************)
\* the step is a call of handler h from the page
Called(h) == ev'.op \in {h \o ":invalid", h \o ":busy", h \o ":request"}

\* the step sends no request and leaves a message in errorMessage
Refused ==
  /\ inflight' = inflight
  /\ IF route' = "/login" THEN login'.errorMessage # "" ELSE teacher'.errorMessage # ""

NeedClass == {"refreshConversations", "createConversation", "loadFiles", "uploadFile", "runSearch"}
NeedConversation ==
  {"sendMessage", "renameConversation", "clearConversation", "deleteConversation",
   "updateSettings"}

\* C20: a handler called while its required field is empty (handleLogin:
\* account or password blank; the handlers of NeedClass: no class code; those
\* of NeedConversation: no conversation selected; sendMessage: a message of
\* white space only; renameConversation: a name of white space only) sends
\* no request and sets errorMessage
C20_ValidationFirst ==
  [][/\ (Called("handleLogin") /\ (Trim(login.account) = <<>> \/ Trim(login.password) = <<>>))
          => Refused
     /\ \A h \in NeedClass : (Called(h) /\ ~Truthy(teacher.classCode)) => Refused
     /\ \A h \in NeedConversation :
          (Called(h) /\ ~Truthy(teacher.selectedConversationId)) => Refused
     /\ (Called("sendMessage") /\ Trim(teacher.draftMessage) = <<>>) => Refused
     /\ (Called("renameConversation") /\ Trim(Chars(teacher.renameValue.s)) = <<>>) => Refused
    ]_vars

\* renameConversation has been called with a conversation selected and a
\* name of white space only
C20_Witness ==
  /\ ev.op = "renameConversation:invalid"
  /\ Truthy(teacher.selectedConversationId)
  /\ teacher.renameValue = Str(" ")
  /\ teacher.errorMessage = "the name must not be empty"
  /\ inflight = <<>>

Unreadable(store) == store.k = "none" \/ store.k = "raw"

\* C30: while the storage key is absent, empty or holds text that is not
\* parseable JSON, getAuth() returns null, and the guard treats the stored
\* session as none: every guard run on a role view redirects to /login,
\* /login is admitted, and no navigation ends on a role view.
C30_GetAuthFailSafe ==
  Unreadable(storage)
    => /\ getAuth(storage) = NoAuth
       /\ \A p \in RolePaths : beforeEach(p, storage) = RedirectTo("/login")
       /\ beforeEach("/login", storage) = Admit
       /\ \A i \in DOMAIN ev.hops :
            ev.hops[i].to \in RolePaths => ev.hops[i].path = "/login"
       /\ ev.hops # <<>> => route = "/login"

C30_Witness ==
  /\ storage = RawText("{bad")
  /\ ev.op = "PageLoad"
  /\ ev.pushed = "/teacher"
  /\ ev.hops = <<[to |-> "/teacher", admit |-> FALSE, path |-> "/login"],
                 [to |-> "/login", admit |-> TRUE, path |-> ""]>>
  /\ route = "/login"

\* the stored session is none or one of the three roles
KnownSession(store) ==
  getAuth(store).some => Get(getAuth(store).obj, "role") \in {Str(r) : r \in Roles}

\* the redirects of a navigation to `start`: the record's redirect, if it
\* has one, and every path a guard run returned
Redirects(start, hops) ==
  (IF routes(start).redirect # "" THEN 1 ELSE 0)
    + Cardinality({i \in DOMAIN hops : ~hops[i].admit})

\* the navigation ends admitted, after at most two redirects and without
\* coming to a location twice, on /login without a session and on the view
\* of the session otherwise
Terminates(start, store, hops) ==
  /\ hops[Len(hops)].admit
  /\ Redirects(start, hops) <= 2
  /\ \A i, j \in DOMAIN hops : hops[i].to = hops[j].to => i = j
  /\ hops[Len(hops)].to =
       IF getAuth(store).some THEN "/" \o JsString(Get(getAuth(store).obj, "role"))
       ELSE "/login"

\* C28: with no stored session or one whose role is admin, teacher or
\* student, a navigation to any of /, /login, /admin, /teacher, /student is
\* admitted after at most two redirects, visits no location twice, and ends
\* on /login when unauthenticated and on /{session role} when authenticated.
C28_GuardRedirectsTerminate ==
  KnownSession(storage)
    => /\ \A p \in Paths : Terminates(p, storage, Hops(p, storage, MaxHops))
       /\ ev.hops # <<>>
            => (Terminates(ev.pushed, storage, ev.hops)
                  /\ route = ev.hops[Len(ev.hops)].to)

C28_Witness ==
  /\ ev.op = "PageLoad"
  /\ ev.pushed = "/"
  /\ getAuth(storage).some
  /\ ev.hops = <<[to |-> "/login", admit |-> FALSE, path |-> "/student"],
                 [to |-> "/student", admit |-> TRUE, path |-> ""]>>
  /\ Redirects(ev.pushed, ev.hops) = 2
  /\ route = "/student"

\* C22: when logout has run, the auth store is empty and the application is
\* on /login, admitted by the guard without a redirect; and from a logout
\* until the next successful login (the next setAuth) the store stays empty,
\* every navigation to /admin, /teacher or /student is redirected to /login,
\* and no role view is shown.
C22_LogoutEndsAccess ==
  /\ ev.op = "logout"
       => /\ storage = NoItem
          /\ ev.hops = <<[to |-> "/login", admit |-> TRUE, path |-> ""]>>
          /\ route = "/login"
  /\ lastWrite.kind = "clear"
       => /\ ~getAuth(storage).some
          /\ \A p \in RolePaths :
               /\ beforeEach(p, storage) = RedirectTo("/login")
               /\ Landing(Hops(p, storage, MaxHops), route) = "/login"
          /\ \A i \in DOMAIN ev.hops :
               ev.hops[i].to \in RolePaths
                 => (~ev.hops[i].admit /\ ev.hops[i].path = "/login")
          /\ route = "/login"

C22_Witness ==
  /\ lastWrite.kind = "clear"
  /\ ev.op = "PageLoad"
  /\ ev.pushed = "/admin"
  /\ ev.hops[1] = [to |-> "/admin", admit |-> FALSE, path |-> "/login"]
  /\ route = "/login"

\* the message POST of the conversation convId
MessagesUrl(convId) == "/conversations/" \o JsString(convId) \o "/messages"

\* the sends in flight
Sends(reqs) == {i \in DOMAIN reqs : reqs[i].h = "sendMessage"}

\* C24: the step of sendMessage that issues the message POST addresses it
\* to the conversation selected when sendMessage was called, the one whose
\* message list gets the two placeholders in that step; and the request
\* keeps that address while it is in flight, whatever selectConversation
\* and refreshConversations make of selectedConversationId meanwhile.
C24_SendTarget ==
  [][/\ ev'.op = "sendMessage:request" =>
          /\ Truthy(teacher.selectedConversationId)
          /\ teacher'.selectedConversationId = teacher.selectedConversationId
          /\ Len(teacher'.messages) = Len(teacher.messages) + 2
          /\ SubSeq(teacher'.messages, 1, Len(teacher.messages)) = teacher.messages
          /\ Len(inflight') = Len(inflight) + 1
          /\ inflight'[Len(inflight')].h = "sendMessage"
          /\ inflight'[Len(inflight')].method = "POST"
          /\ inflight'[Len(inflight')].url = MessagesUrl(teacher.selectedConversationId)
     /\ (ev'.op # "sendMessage:request" /\ ev'.op # "PageLoad") =>
          \A i \in Sends(inflight') :
            \E j \in Sends(inflight) : inflight'[i].url = inflight[j].url
    ]_vars

\* a message is sent in the second conversation while the first item of the
\* list is another one and a detail request is still in flight
C24_Witness ==
  /\ ev.op = "sendMessage:request"
  /\ teacher.selectedConversationId = Num(2)
  /\ Get(teacher.conversations[1], "conversation_id") = Num(1)
  /\ Len(inflight) = 2
  /\ inflight[1].h = "loadConversationDetail"
  /\ inflight[2].url = MessagesUrl(Num(2))

\* the entries of the message list that a detail of the server has given
FromServer(msgs) == {j \in DOMAIN msgs : \E k \in DOMAIN Conversations : msgs[j] = MessageItem(k)}

\* C26 as claimed: whenever no request is in flight and a conversation is
\* selected, every message shown that came from a detail load is a message
\* of the selected conversation, never one of another conversation, in
\* whatever order the responses of overlapping selectConversation,
\* refreshConversations and sendMessage have arrived.
C26_Original ==
  (Quiet /\ route = "/teacher" /\ Truthy(teacher.selectedConversationId))
    => \A j \in FromServer(teacher.messages) :
         teacher.messages[j] = MessageItem(teacher.selectedConversationId.n)

\* the ids of the conversations listed
ListedIds == {Get(teacher.conversations[j], "conversation_id") : j \in DOMAIN teacher.conversations}

\* C25 as claimed: in every state of the view in which no request is in
\* flight, selectedConversationId is null or the conversation_id of an entry
\* of conversations, also after sequences in which requests have failed.
C25_Original ==
  (Quiet /\ route = "/teacher")
    => (teacher.selectedConversationId = Null \/ teacher.selectedConversationId \in ListedIds)

\* the handler that awaits the request rq ("" if none does)
Awaiting(rq) == IF rq.k = <<>> THEN "" ELSE Head(rq.k).f

\* the step taken has settled the request i of a mounted view that
\* createConversation waited for at position f, and the handler went on
Resumed(i, f) ==
  /\ inflight[i].live
  /\ Awaiting(inflight[i]) = f
  /\ ev'.op \in {"refreshConversations", "loadConversationDetail"}
  /\ Len(inflight') \in {Len(inflight) - 1, Len(inflight)}
  /\ SubSeq(inflight', 1, Len(inflight) - 1) = Remove(inflight, i)
  /\ Len(inflight') = Len(inflight) => Awaiting(inflight'[Len(inflight')]) # f

\* what loadConversationDetail shows of the detail of conversation j
ShowsDetailOf(t, j) ==
  /\ t.messages = <<MessageItem(j)>>
  /\ t.renameValue = Str(RowName(j))
  /\ t.settings = DetailSettings(JSONparse(ConversationDetailOf(j)).obj)

SendAwaits(reqs) ==
  {i \in DOMAIN reqs :
     /\ reqs[i].live
     /\ \/ reqs[i].h = "sendMessage"
        \/ \E j \in DOMAIN reqs[i].k :
             reqs[i].k[j].f \in {"sendMessage:afterRefresh", "sendMessage:finally"}}

\* C23: at most one message POST of a view is in flight; isSending is true
\* exactly while a sendMessage of the view has not ended, from the step that
\* appends the placeholders until its request, and after a success the
\* reloads that follow, have settled, after a success and after a failure
\* alike; and a sendMessage called while isSending is true appends nothing
\* and issues no request.
C23_SendMutualExclusion ==
  [][/\ Cardinality({i \in DOMAIN inflight' :
                       inflight'[i].h = "sendMessage" /\ inflight'[i].live}) <= 1
     /\ Cardinality(SendAwaits(inflight')) <= 1
     /\ teacher'.isSending <=> SendAwaits(inflight') # {}
     /\ ev'.op = "sendMessage:request" =>
          (~teacher.isSending /\ teacher'.isSending
             /\ Len(teacher'.messages) = Len(teacher.messages) + 2)
     /\ (teacher.isSending /\ ev'.op \in SendOps) =>
          (teacher'.messages = teacher.messages /\ inflight' = inflight)
     /\ (teacher.isSending /\ ~teacher'.isSending /\ ev'.op # "PageLoad") =>
          (SendAwaits(inflight) # {} /\ SendAwaits(inflight') = {}
             /\ ev'.op \in {"sendMessage", "loadConversationDetail", "refreshConversations"})
    ]_vars

\* a send has succeeded and the reload of the list that follows it is in
\* flight: isSending is still true
C23_Witness ==
  /\ ev.op = "sendMessage"
  /\ ev.out.kind = "resolve"
  /\ teacher.isSending
  /\ \E i \in SendAwaits(inflight) : inflight[i].h = "refreshConversations"

\* the steps in which a handler of the teacher's view issues its request
RequestOps ==
  {"refreshConversations:request", "createConversation:request", "sendMessage:request",
   "renameConversation:request", "clearConversation:request", "deleteConversation:request",
   "updateSettings:request", "loadFiles:request", "uploadFile:request", "runSearch:request"}

\* the step taken has settled the request i of the mounted view
SettledRequest(i) ==
  /\ inflight[i].h = ev'.op
  /\ inflight[i].live
  /\ Len(inflight') >= Len(inflight) - 1
  /\ SubSeq(inflight', 1, Len(inflight) - 1) = Remove(inflight, i)

\* the request i has failed and no other handler awaits the one that made it
FailedAlone(i) == SettledRequest(i) /\ ev'.out.kind = "reject" /\ inflight[i].k = <<>>

\* the refs but errorMessage are the same
Kept(before, after) == [before EXCEPT !.errorMessage = ""] = [after EXCEPT !.errorMessage = ""]

SelectedPendingRows ==
  {j \in DOMAIN admin.auditRows :
     /\ Get(admin.auditRows[j], "source") = Str("pending")
     /\ Get(admin.auditRows[j], "key") = admin.selectedKey}

\* C27 as claimed: while the tab "pending" is shown, auditDetail is null or
\* the detail of the row of auditRows whose key is selectedKey, a row of the
\* pending list; so every decision request is made for a document of the
\* pending list that is loaded.
C27_Original ==
  /\ (route = "/admin" /\ admin.tab = "pending" /\ admin.auditDetail # Null)
       => \E j \in SelectedPendingRows : admin.auditDetail = RowDetail(admin.auditRows[j])
  /\ \A i \in DOMAIN inflight :
       (inflight[i].h = "submitDecision" /\ inflight[i].live
          /\ ev.op = "submitDecision:request")
         => \E j \in DOMAIN admin.auditRows :
              /\ Get(admin.auditRows[j], "source") = Str("pending")
              /\ Get(admin.auditRows[j], "document_id") = inflight[i].arg

====
